---- MODULE Spec2Model ----
(***************************************************************************)
(* A model of the cross-compilation CI orchestrator of cpx                 *)
(* (cpx/internal/app/cli/ci.go): the environment resolver (pull / local /  *)
(* build modes with content-hashed image tags), the build dispatcher and   *)
(* the sequential orchestrator runCIBuild with its process-wide guard.     *)
(*                                                                         *)
(* Byte strings are sequences of byte codes.  External commands (docker,   *)
(* cmake) are steps whose exit status is chosen nondeterministically.      *)
(***************************************************************************)
EXTENDS Integers, Sequences, FiniteSets, TLC

\* ------------------------------------------------------------------ bounds
\* longest Dockerfile content explored by the hashing harness
MaxLen == 1
\* most targets in cpx-ci.yaml
MaxTargets == 2
\* most calls of runCIBuild within one process
MaxCalls == 2
\* most processes (invocations of the cpx binary) one after the other
MaxRuns == 2
\* most add-target and rm-target commands one after the other
MaxEdits == 2
\* most entries os.ReadDir lists in a build directory
MaxEntries == 3
\* most orchestrator processes running at the same time
MaxProcs == 2
\* longest Dockerfile content of two build configurations hashed one after the other
MaxContent == 3

\* ------------------------------------------------------------- byte strings
\* the separators written between the build args: "=" and "\n"
EQ == 61
NL == 10

\* the bytes strings are made of: '\n', '=', 'a', 'b'
Alphabet == <<10, 61, 97, 98>>

Bytes == {Alphabet[i] : i \in 1..Len(Alphabet)}

RECURSIVE StringsUpTo(_)
StringsUpTo(n) ==
  IF n = 0 THEN {<<>>}
  ELSE LET shorter == StringsUpTo(n - 1)
       IN  shorter \cup {Append(s, b) : s \in {t \in shorter : Len(t) = n - 1}, b \in Bytes}

\* Go's string comparison (bytewise lexicographic), as used by sort.Strings
RECURSIVE StrLess(_, _)
StrLess(a, b) ==
  IF Len(b) = 0 THEN FALSE
  ELSE IF Len(a) = 0 THEN TRUE
  ELSE IF Head(a) # Head(b) THEN Head(a) < Head(b)
  ELSE StrLess(Tail(a), Tail(b))

RECURSIVE InsertSorted(_, _)
InsertSorted(k, s) ==
  IF Len(s) = 0 THEN <<k>>
  ELSE IF StrLess(Head(s), k) THEN <<Head(s)>> \o InsertSorted(k, Tail(s))
  ELSE <<k>> \o s

\* a sort.Strings that forgets to sort
SortStrings_Unsorted(keys) == keys

\* sort.Strings(keys)
RECURSIVE SortStrings(_)
SortStrings(keys) ==
  IF Len(keys) = 0 THEN <<>>
  ELSE InsertSorted(Head(keys), SortStrings(Tail(keys)))

\* the orders in which `for k := range args` may enumerate the keys of a Go map
RangeOrders(args) ==
  LET n == Cardinality(DOMAIN args)
  IN  {s \in [1..n -> DOMAIN args] : \A i, j \in 1..n : i # j => s[i] # s[j]}

\* ------------------------------------------------------------------ hashing
DigitOf(b) == CHOOSE i \in 1..Len(Alphabet) : Alphabet[i] = b

\* SHA-256 followed by hex.EncodeToString(...)[:12].  The digest is idealised
\* as collision-free on the inputs explored: it is the number that the bytes
\* fed to the hash spell in bijective base Len(Alphabet)+1, so two inputs get
\* the same hash exactly when the same bytes were written to the hash.
RECURSIVE Sha256Hex12(_)
Sha256Hex12(bytes) ==
  IF Len(bytes) = 0 THEN 0
  ELSE DigitOf(Head(bytes)) + (Len(Alphabet) + 1) * Sha256Hex12(Tail(bytes))

\* a loop that writes the keys but not their values
RECURSIVE WriteArgs_KeysOnly(_, _)
WriteArgs_KeysOnly(keys, args) ==
  IF Len(keys) = 0 THEN <<>>
  ELSE Head(keys) \o <<EQ, NL>> \o WriteArgs_KeysOnly(Tail(keys), args)

\* the loop over the sorted keys: h.Write(k); h.Write("="); h.Write(args[k]); h.Write("\n")
RECURSIVE WriteArgs(_, _)
WriteArgs(keys, args) ==
  IF Len(keys) = 0 THEN <<>>
  ELSE Head(keys) \o <<EQ>> \o args[Head(keys)] \o <<NL>> \o WriteArgs(Tail(keys), args)

\* the bytes hashDockerBuildConfig writes to the hash: the Dockerfile content,
\* then the args in sorted key order; `order` is the map's enumeration order
HashInput(content, args, order) ==
  content \o (IF Cardinality(DOMAIN args) > 0
              THEN WriteArgs(SortStrings(order), args)
              ELSE <<>>)

\* a hash of the build args alone
hashDockerBuildConfig_ArgsOnly(file, args, order) ==
  IF ~file.readable
  THEN [err |-> "failed to read Dockerfile", hash |-> 0]
  ELSE [err |-> "", hash |-> Sha256Hex12(HashInput(<<>>, args, order))]

\* hashDockerBuildConfig(dockerfilePath, args) on a file that is read as `file`
\* ([readable, content]); returns (hash, err)
hashDockerBuildConfig(file, args, order) ==
  IF ~file.readable
  THEN [err |-> "failed to read Dockerfile", hash |-> 0]
  ELSE [err |-> "", hash |-> Sha256Hex12(HashInput(file.content, args, order))]

\* image references: a configured image name, or a generated tag cpx/<name>:<hash>
ConfiguredImage(image) == [ns |-> "", name |-> image, tag |-> 0]

\* a tag made of the image label of the descriptor instead of the target name
BuildTag_FromLabel(target, hash) == [ns |-> "cpx", name |-> target.docker.image, tag |-> hash]

\* a tag that tells the platforms of a target apart
BuildTag_WithPlatform(target, hash) ==
  [ns |-> "cpx", name |-> target.name \o "@" \o target.docker.platform, tag |-> hash]

\* fmt.Sprintf("cpx/%s:%s", target.Name, hash)
BuildTag(target, hash) == [ns |-> "cpx", name |-> target.name, tag |-> hash]

\* ------------------------------------------------------------ configuration
\* build-arg keys and the build-arg mappings explored
KeyA == <<97>>
KeyB == <<98>>
NoArgs == << >>
TwoArgs == [k \in {KeyA, KeyB} |-> IF k = KeyA THEN <<98>> ELSE <<97>>]

\* DockerBuildConfig (docker.build); present = FALSE is a nil pointer
NoBuild == [present |-> FALSE, dockerfile |-> "", args |-> NoArgs]
BuildOf(args) == [present |-> TRUE, dockerfile |-> "Dockerfile", args |-> args]

\* DockerConfig (docker); present = FALSE is a nil pointer
NoDocker ==
  [present |-> FALSE, mode |-> "", image |-> "", platform |-> "", pullPolicy |-> "",
   build |-> NoBuild]
DockerOf(mode, image, platform, pullPolicy, build) ==
  [present |-> TRUE, mode |-> mode, image |-> image, platform |-> platform,
   pullPolicy |-> pullPolicy, build |-> build]

\* CITarget
TargetOf(name, runner, active, docker) ==
  [name |-> name, runner |-> runner, active |-> active, docker |-> docker,
   buildType |-> "", cmakeOptions |-> <<>>, buildOptions |-> <<>>]

\* CITarget.IsActive(): targets are active unless marked inactive
IsActive(t) == t.active

TargetNames == <<"t1", "t2", "t3", "t4">>

\* the container descriptors explored by the resolver specification
PullPolicies == {"always", "never", "ifNotPresent", "", "sometimes"}
ResolverDockers ==
  {NoDocker}
  \cup {DockerOf("pull", "img", "linux/amd64", p, NoBuild) : p \in PullPolicies}
  \cup {DockerOf("local", "img", "", "", NoBuild)}
  \cup {DockerOf("build", "label", "linux/arm64", "", b) :
          b \in {NoBuild, BuildOf(NoArgs), BuildOf(TwoArgs)}}
  \cup {DockerOf("compose", "img", "", "", NoBuild)}

\* the targets explored by the orchestrator specification
OrchestratorTargets(name) ==
  {TargetOf(name, "native", a, NoDocker) : a \in BOOLEAN}
  \cup {TargetOf(name, "docker", a, DockerOf("pull", "img", "", "", NoBuild)) : a \in BOOLEAN}
  \cup {TargetOf(name, "docker", a, DockerOf("build", "label", "", "", BuildOf(NoArgs))) :
          a \in BOOLEAN}

\* target lists of length n whose i-th target is named TargetNames[i]
TargetLists(n) ==
  {l \in [1..n -> UNION {OrchestratorTargets(TargetNames[i]) : i \in 1..n}] :
     \A i \in 1..n : l[i].name = TargetNames[i]}

\* the state of a file: absent, present but unreadable, or present with content
FileOf(content) == [exists |-> TRUE, readable |-> TRUE, content |-> content]
MissingFile == [exists |-> FALSE, readable |-> FALSE, content |-> <<>>]
UnreadableFile == [exists |-> TRUE, readable |-> FALSE, content |-> <<>>]

\* ------------------------------------------------------ environment resolver
NoRef == [ns |-> "", name |-> "", tag |-> 0]

\* an external command run, a directory created or a line printed for `target`
Ev(op, target, ref) == [op |-> op, target |-> target, ref |-> ref, n |-> 0]

\* the same command, when cmd.Run() returned an error
Exited(ev) == [ev EXCEPT !.n = 1]

\* what a resolution did: the commands it ran, the local image store after it,
\* and the (imageName, err) it returned
Resolved(events, imgs, ref) == [events |-> events, images |-> imgs, ref |-> ref, err |-> ""]
ResolveFailed(events, imgs, err) == [events |-> events, images |-> imgs, ref |-> NoRef, err |-> err]

\* `docker images -q <imageName>` prints an id exactly for the images of the
\* local store
ImageQuery(target, imageName) == <<Ev("docker images", target.name, imageName)>>

\* `docker pull <imageName>`: fails, or succeeds and leaves the image in the store
DockerPull(target, imageName, events, imgs) ==
  LET ran == events \o <<Ev("docker pull", target.name, imageName)>>
  IN  {Resolved(ran, imgs \cup {imageName}, imageName),
       ResolveFailed(ran, imgs, "docker pull failed")}

\* a handlePullMode in which --rebuild forces the pull before the policy is looked at
handlePullMode_RebuildFirst(target, rebuild, imgs) ==
  LET imageName == ConfiguredImage(target.docker.image)
      pullPolicy == target.docker.pullPolicy
      imageExists == imageName \in imgs
      query == ImageQuery(target, imageName)
  IN  IF rebuild \/ pullPolicy = "always"
      THEN DockerPull(target, imageName, query, imgs)
      ELSE IF pullPolicy = "never" /\ ~imageExists
      THEN {ResolveFailed(query, imgs, "image not found locally and pullPolicy is 'never'")}
      ELSE IF pullPolicy \notin {"always", "never", "ifNotPresent", ""}
      THEN {ResolveFailed(query, imgs, "unknown pullPolicy")}
      ELSE IF pullPolicy \in {"ifNotPresent", ""} /\ ~imageExists
      THEN DockerPull(target, imageName, query, imgs)
      ELSE {Resolved(query, imgs, imageName)}

\* a handlePullMode that treats pullPolicy=always like ifNotPresent
handlePullMode_AlwaysIfAbsent(target, rebuild, imgs) ==
  LET imageName == ConfiguredImage(target.docker.image)
      pullPolicy == target.docker.pullPolicy
      imageExists == imageName \in imgs
      query == ImageQuery(target, imageName)
      shouldPull == rebuild \/ ~imageExists
  IN  IF pullPolicy = "never" /\ ~imageExists
      THEN {ResolveFailed(query, imgs, "image not found locally and pullPolicy is 'never'")}
      ELSE IF pullPolicy \notin {"always", "never", "ifNotPresent", ""}
      THEN {ResolveFailed(query, imgs, "unknown pullPolicy")}
      ELSE IF shouldPull
      THEN DockerPull(target, imageName, query, imgs)
      ELSE {Resolved(query, imgs, imageName)}

\* a handlePullMode for which an unset pullPolicy means always
handlePullMode_UnsetIsAlways(target, rebuild, imgs) ==
  LET imageName == ConfiguredImage(target.docker.image)
      pullPolicy == target.docker.pullPolicy
      imageExists == imageName \in imgs
      query == ImageQuery(target, imageName)
      shouldPull ==
        \/ rebuild
        \/ pullPolicy \in {"always", ""}
        \/ pullPolicy = "ifNotPresent" /\ ~imageExists
  IN  IF pullPolicy = "never" /\ ~imageExists
      THEN {ResolveFailed(query, imgs, "image not found locally and pullPolicy is 'never'")}
      ELSE IF pullPolicy \notin {"always", "never", "ifNotPresent", ""}
      THEN {ResolveFailed(query, imgs, "unknown pullPolicy")}
      ELSE IF shouldPull
      THEN DockerPull(target, imageName, query, imgs)
      ELSE {Resolved(query, imgs, imageName)}

\* a handlePullMode that does not look at the rebuild flag
handlePullMode_IgnoresRebuild(target, rebuild, imgs) ==
  LET imageName == ConfiguredImage(target.docker.image)
      pullPolicy == target.docker.pullPolicy
      imageExists == imageName \in imgs
      query == ImageQuery(target, imageName)
      shouldPull ==
        \/ pullPolicy = "always"
        \/ pullPolicy \in {"ifNotPresent", ""} /\ ~imageExists
  IN  IF pullPolicy = "never" /\ ~imageExists
      THEN {ResolveFailed(query, imgs, "image not found locally and pullPolicy is 'never'")}
      ELSE IF pullPolicy \notin {"always", "never", "ifNotPresent", ""}
      THEN {ResolveFailed(query, imgs, "unknown pullPolicy")}
      ELSE IF shouldPull
      THEN DockerPull(target, imageName, query, imgs)
      ELSE {Resolved(query, imgs, imageName)}

\* handlePullMode(target, rebuild)
handlePullMode(target, rebuild, imgs) ==
  LET imageName == ConfiguredImage(target.docker.image)
      pullPolicy == target.docker.pullPolicy
      imageExists == imageName \in imgs
      query == ImageQuery(target, imageName)
      shouldPull ==
        \/ rebuild
        \/ pullPolicy = "always"
        \/ pullPolicy \in {"ifNotPresent", ""} /\ ~imageExists
  IN  IF pullPolicy = "never" /\ ~imageExists
      THEN {ResolveFailed(query, imgs, "image not found locally and pullPolicy is 'never'")}
      ELSE IF pullPolicy \notin {"always", "never", "ifNotPresent", ""}
      THEN {ResolveFailed(query, imgs, "unknown pullPolicy")}
      ELSE IF shouldPull
      THEN DockerPull(target, imageName, query, imgs)
      ELSE {Resolved(query, imgs, imageName)}

\* a handleLocalMode that pulls the image when it is not in the store
handleLocalMode_FallsBackToPull(target, imgs) ==
  LET imageName == ConfiguredImage(target.docker.image)
      query == ImageQuery(target, imageName)
  IN  IF imageName \notin imgs
      THEN DockerPull(target, imageName, query, imgs)
      ELSE {Resolved(query, imgs, imageName)}

\* handleLocalMode(target)
handleLocalMode(target, imgs) ==
  LET imageName == ConfiguredImage(target.docker.image)
      query == ImageQuery(target, imageName)
  IN  IF imageName \notin imgs
      THEN {ResolveFailed(query, imgs, "local image " \o imageName.name \o " not found")}
      ELSE {Resolved(query, imgs, imageName)}

\* a build that gives up when docker buildx build fails
DockerBuild_NoFallback(target, imageName, events, imgs) ==
  LET buildx == Ev("docker buildx build", target.name, imageName)
  IN  {Resolved(events \o <<buildx>>, imgs \cup {imageName}, imageName),
       ResolveFailed(events \o <<Exited(buildx)>>, imgs, "docker build failed")}

\* the build of handleBuildMode: `docker buildx build ... --load`, and when that
\* fails `docker build`
DockerBuild(target, imageName, events, imgs) ==
  LET buildx == Ev("docker buildx build", target.name, imageName)
      legacy == Ev("docker build", target.name, imageName)
  IN  {Resolved(events \o <<buildx>>, imgs \cup {imageName}, imageName),
       Resolved(events \o <<Exited(buildx), legacy>>, imgs \cup {imageName}, imageName),
       ResolveFailed(events \o <<Exited(buildx), Exited(legacy)>>, imgs, "docker build failed")}

\* a handleBuildMode that builds without looking for the tag in the local store
BuildModeWithOrder_AlwaysBuilds(target, rebuild, imgs, file, order) ==
  LET hashed == hashDockerBuildConfig(file, target.docker.build.args, order)
      imageName == BuildTag(target, hashed.hash)
      query == ImageQuery(target, imageName)
  IN  IF hashed.err # ""
      THEN {ResolveFailed(<<>>, imgs, hashed.err)}
      ELSE DockerBuild(target, imageName, IF rebuild THEN <<>> ELSE query, imgs)

\* handleBuildMode(target, projectRoot, rebuild) once the Dockerfile is hashed
\* with the map enumerated in `order`
BuildModeWithOrder(target, rebuild, imgs, file, order) ==
  LET hashed == hashDockerBuildConfig(file, target.docker.build.args, order)
      imageName == BuildTag(target, hashed.hash)
      query == ImageQuery(target, imageName)
  IN  IF hashed.err # ""
      THEN {ResolveFailed(<<>>, imgs, hashed.err)}
      ELSE IF ~rebuild
      THEN IF imageName \in imgs
           THEN {Resolved(query, imgs, imageName)}
           ELSE DockerBuild(target, imageName, query, imgs)
      ELSE DockerBuild(target, imageName, <<>>, imgs)

\* a handleBuildMode that does not stat the Dockerfile and hashes a file it
\* could not read as an empty one
handleBuildMode_SkipsFileChecks(target, rebuild, imgs, file) ==
  IF ~target.docker.build.present
  THEN {ResolveFailed(<<>>, imgs, "build configuration is required for mode: build")}
  ELSE UNION {BuildModeWithOrder(target, rebuild, imgs, FileOf(file.content), order) :
                order \in RangeOrders(target.docker.build.args)}

\* handleBuildMode(target, projectRoot, rebuild)
handleBuildMode(target, rebuild, imgs, file) ==
  IF ~target.docker.build.present
  THEN {ResolveFailed(<<>>, imgs, "build configuration is required for mode: build")}
  ELSE IF ~file.exists
  THEN {ResolveFailed(<<>>, imgs, "dockerfile not found")}
  ELSE UNION {BuildModeWithOrder(target, rebuild, imgs, file, order) :
                order \in RangeOrders(target.docker.build.args)}

\* resolveDockerImage(target, projectRoot, rebuild)
\* a resolver that asks the engine for the image before it looks at the descriptor
resolveDockerImage_QueriesFirst(target, rebuild, imgs, file) ==
  IF ~target.docker.present
  THEN {ResolveFailed(<<Ev("docker images", target.name, NoRef)>>, imgs,
                      "docker configuration is required for docker runner")}
  ELSE CASE target.docker.mode = "pull" -> handlePullMode(target, rebuild, imgs)
         [] target.docker.mode = "local" -> handleLocalMode(target, imgs)
         [] target.docker.mode = "build" -> handleBuildMode(target, rebuild, imgs, file)
         [] OTHER -> {ResolveFailed(<<>>, imgs, "unknown docker mode")}

\* resolveDockerImage(target, projectRoot, rebuild)
resolveDockerImage(target, rebuild, imgs, file) ==
  IF ~target.docker.present
  THEN {ResolveFailed(<<>>, imgs, "docker configuration is required for docker runner")}
  ELSE CASE target.docker.mode = "pull" -> handlePullMode(target, rebuild, imgs)
         [] target.docker.mode = "local" -> handleLocalMode(target, imgs)
         [] target.docker.mode = "build" -> handleBuildMode(target, rebuild, imgs, file)
         [] OTHER -> {ResolveFailed(<<>>, imgs, "unknown docker mode")}

\* ------------------------------------------------------- build strategies
\* Paths are sequences of components below the project root (the directory of
\* cpx-ci.yaml, which is the working directory of the command).
DefaultOutput == ".bin/ci"
CacheBase == ".cache/ci"

\* os.MkdirAll(path): the directory and its parents
MkdirAll(path) == {SubSeq(path, 1, i) : i \in 1..Len(path)}

\* A path whose first component starts with "/" is absolute; every other path
\* is below the project root, which is the working directory.
\* the output roots explored: unset, relative, absolute
RootNames == {"out"}
OutputRoots == {""} \cup RootNames \cup {"/" \o r : r \in RootNames}

\* filepath.Join(projectRoot, outputDir), as a path below the project root: Join
\* puts an absolute outputDir below the project root like any other
JoinProjectRoot(outputDir) ==
  IF \E r \in RootNames : outputDir = "/" \o r
  THEN CHOOSE r \in RootNames : outputDir = "/" \o r
  ELSE outputDir

\* filepath.Join(outputDir, target.Name)
TargetOutputDir(outputDir, target) == <<outputDir, target.name>>

\* the host directory the artifacts of a build are copied into: the target's
\* output directory for the native build; for the container strategies the
\* directory <target> of the mount filepath.Join(projectRoot, outputDir)
ArtifactDir(target, outputDir) ==
  IF target.runner = "native" THEN TargetOutputDir(outputDir, target)
  ELSE <<JoinProjectRoot(outputDir), target.name>>
\* filepath.Join(projectRoot, ".cache", "ci", target.Name)
HostBuildDir(target) == <<CacheBase, target.name>>
VcpkgCacheDir(target) == <<CacheBase, target.name, ".vcpkg_cache">>
VcpkgCacheDirs(target) ==
  UNION {MkdirAll(VcpkgCacheDir(target) \o <<d>>) :
           d \in {"installed", "downloads", "buildtrees", "binary"}}

\* what a build did: the commands it ran, the directories it created, whether
\* the build directory holds build.ninja afterwards, whether artifacts were
\* copied into the target's output directory, and the error it returned
Built(events, dirs, configured, copied, err) ==
  [events |-> events, dirs |-> dirs, configured |-> configured, copied |-> copied, err |-> err]

\* the part of a build script after a successful compile: copy the artifacts that
\* are found (possibly none) and, for build-then-run, look for the executable and
\* execute it; when none is found the script says so and ends successfully
CopyAndRun(target, ref, events, dirs, run) ==
  LET copy == events \o <<Ev("copy artifacts", target.name, ref)>>
      exec == copy \o <<Ev("execute", target.name, ref)>>
  IN  IF run
      THEN {Built(exec, dirs, TRUE, c, e) : c \in BOOLEAN, e \in {"", "docker run failed"}}
           \cup {Built(copy, dirs, TRUE, c, "") : c \in BOOLEAN}
      ELSE {Built(copy, dirs, TRUE, c, "") : c \in BOOLEAN}

\* a script that configures whether or not build.ninja is there
ConfigureAndCompile_AlwaysConfigures(target, ref, events, dirs, wasConfigured, configureOp, compileOp, failure) ==
  LET configured == events \o <<Ev(configureOp, target.name, ref)>>
      compiled == configured \o <<Ev(compileOp, target.name, ref)>>
  IN  [failed |-> {Built(configured, dirs, wasConfigured, FALSE, failure),
                   Built(compiled, dirs, TRUE, FALSE, failure)},
       compiled |-> compiled]

\* a script that runs the compile step a second time
ConfigureAndCompile_CompilesAgain(target, ref, events, dirs, wasConfigured, configureOp, compileOp, failure) ==
  LET configured == IF wasConfigured THEN events
                    ELSE events \o <<Ev(configureOp, target.name, ref)>>
      compiled == configured \o <<Ev(compileOp, target.name, ref), Ev(compileOp, target.name, ref)>>
  IN  [failed |->
         (IF wasConfigured THEN {}
          ELSE {Built(configured, dirs, FALSE, FALSE, failure)})
         \cup {Built(compiled, dirs, TRUE, FALSE, failure)},
       compiled |-> compiled]

\* a configure step guarded by build.ninja, then the compile step:
\* the outcomes up to the end of the compile step
ConfigureAndCompile(target, ref, events, dirs, wasConfigured, configureOp, compileOp, failure) ==
  LET configured == IF wasConfigured THEN events
                    ELSE events \o <<Ev(configureOp, target.name, ref)>>
      compiled == configured \o <<Ev(compileOp, target.name, ref)>>
  IN  [failed |->
         (IF wasConfigured THEN {}
          ELSE {Built(configured, dirs, FALSE, FALSE, failure)})
         \cup {Built(compiled, dirs, TRUE, FALSE, failure)},
       compiled |-> compiled]

\* the CMake + vcpkg strategy of runDockerBuildWithImage
DockerCMakeBuild(target, imageName, outputDir, executeAfterBuild, wasConfigured) ==
  LET dirs == MkdirAll(TargetOutputDir(outputDir, target))
              \cup MkdirAll(HostBuildDir(target)) \cup VcpkgCacheDirs(target)
      run == <<Ev("docker run", target.name, imageName)>>
      steps == ConfigureAndCompile(target, imageName, run, dirs, wasConfigured,
                                   "cmake configure", "cmake build", "docker run failed")
  IN  {Built(run, dirs, wasConfigured, FALSE, "docker run failed")}
      \cup steps.failed
      \cup CopyAndRun(target, imageName, steps.compiled, dirs, executeAfterBuild)

\* runDockerBazelBuildWithImage
runDockerBazelBuildWithImage(target, imageName, outputDir, wasConfigured) ==
  LET dirs == MkdirAll(TargetOutputDir(outputDir, target))
              \cup MkdirAll(HostBuildDir(target)) \cup MkdirAll(<<CacheBase, "bazel_repo_cache">>)
      run == <<Ev("docker run", target.name, imageName)>>
      built == run \o <<Ev("bazel build", target.name, imageName)>>
      copy == built \o <<Ev("copy artifacts", target.name, imageName)>>
  IN  {Built(run, dirs, wasConfigured, FALSE, "docker bazel build failed"),
       Built(built, dirs, wasConfigured, FALSE, "docker bazel build failed")}
      \cup {Built(copy, dirs, wasConfigured, c, "") : c \in BOOLEAN}

\* runDockerMesonBuildWithImage
runDockerMesonBuildWithImage(target, imageName, outputDir, wasConfigured) ==
  LET dirs == MkdirAll(TargetOutputDir(outputDir, target))
              \cup MkdirAll(HostBuildDir(target)) \cup MkdirAll(<<"subprojects">>)
      run == <<Ev("docker run", target.name, imageName)>>
      steps == ConfigureAndCompile(target, imageName, run, dirs, wasConfigured,
                                   "meson setup", "meson compile", "docker meson build failed")
  IN  {Built(run, dirs, wasConfigured, FALSE, "docker meson build failed")}
      \cup steps.failed
      \cup CopyAndRun(target, imageName, steps.compiled, dirs, FALSE)

\* a selection that looks for meson.build before MODULE.bazel
DockerStrategy_MesonFirst(markerFiles) ==
  IF "meson.build" \in markerFiles THEN "meson"
  ELSE IF "MODULE.bazel" \in markerFiles THEN "bazel"
  ELSE "cmake"

\* the strategy runDockerBuildWithImage selects from the marker files at the
\* project root
DockerStrategy(markerFiles) ==
  IF "MODULE.bazel" \in markerFiles THEN "bazel"
  ELSE IF "meson.build" \in markerFiles THEN "meson"
  ELSE "cmake"

\* a runDockerBuildWithImage that refuses a project without MODULE.bazel or meson.build
runDockerBuildWithImage_RequiresMarker(target, imageName, outputDir, executeAfterBuild, markerFiles, wasConfigured) ==
  {Built(<<>>, {}, wasConfigured, FALSE, "failed to create target output directory")}
  \cup CASE DockerStrategy(markerFiles) = "bazel" ->
              runDockerBazelBuildWithImage(target, imageName, outputDir, wasConfigured)
         [] DockerStrategy(markerFiles) = "meson" ->
              runDockerMesonBuildWithImage(target, imageName, outputDir, wasConfigured)
         [] OTHER ->
              {Built(<<>>, MkdirAll(TargetOutputDir(outputDir, target)), wasConfigured, FALSE,
                     "unknown project type")}

\* the strategy that builds a target: the dispatch of runCIBuild on the runner,
\* then the selection of runDockerBuildWithImage
StrategyOf(target, markerFiles) ==
  IF target.runner = "native" THEN "native" ELSE DockerStrategy(markerFiles)

\* runDockerBuildWithImage(target, imageName, projectRoot, outputDir, buildConfig, executeAfterBuild)
runDockerBuildWithImage(target, imageName, outputDir, executeAfterBuild, markerFiles, wasConfigured) ==
  {Built(<<>>, {}, wasConfigured, FALSE, "failed to create target output directory")}
  \cup CASE DockerStrategy(markerFiles) = "bazel" ->
              runDockerBazelBuildWithImage(target, imageName, outputDir, wasConfigured)
         [] DockerStrategy(markerFiles) = "meson" ->
              runDockerMesonBuildWithImage(target, imageName, outputDir, wasConfigured)
         [] OTHER ->
              DockerCMakeBuild(target, imageName, outputDir, executeAfterBuild, wasConfigured)

\* strings.HasPrefix and strings.HasSuffix
HasPrefix(s, prefix) == Len(s) >= Len(prefix) /\ SubSeq(s, 1, Len(prefix)) = prefix
HasSuffix(s, suffix) ==
  Len(s) >= Len(suffix) /\ SubSeq(s, Len(s) - Len(suffix) + 1, Len(s)) = suffix

\* an entry of the build directory: its name, whether it is a directory, whether
\* one of the permission bits 0111 is set, and the call that fails for it:
\* "info" (entry.Info), "read" (os.ReadFile), "write" (os.WriteFile), "" for none
DirEntry(name, isDir, exec, fails) ==
  [name |-> name, isDir |-> isDir, exec |-> exec, fails |-> fails]

\* what os.ReadDir(absBuildDir) returns: an error, or the entries sorted by name
Unreadable == [readable |-> FALSE, entries |-> <<>>]
Listing(entries) == [readable |-> TRUE, entries |-> entries]

\* the names the copy loop skips
NonArtifact(name) ==
  \/ HasSuffix(name, ".ninja") \/ HasSuffix(name, ".cmake")
  \/ HasSuffix(name, ".txt") \/ HasSuffix(name, ".json")
  \/ HasPrefix(name, "CMake")

isLib(name) ==
  HasPrefix(name, "lib")
    /\ (HasSuffix(name, ".a") \/ HasSuffix(name, ".so") \/ HasSuffix(name, ".dylib"))

\* the entries the copy loop takes for artifacts: executables and libraries
IsArtifact(entry) ==
  /\ ~entry.isDir
  /\ ~NonArtifact(entry.name)
  /\ entry.fails # "info"
  /\ entry.exec \/ isLib(entry.name)

\* a copy loop that gives up at the first artifact it cannot copy
CopyArtifacts_StopsAtFailure(entries) ==
  LET found == SelectSeq(entries, IsArtifact)
      bad == {k \in DOMAIN found : found[k].fails # ""}
      first == CHOOSE k \in bad : \A j \in bad : k <= j
  IN  IF bad = {}
      THEN [copied |-> [k \in DOMAIN found |-> found[k].name], err |-> ""]
      ELSE [copied |-> [k \in 1..first - 1 |-> found[k].name], err |-> "failed to copy artifact"]

\* the copy loop of runNativeBuild: the names it copies, in the order of the
\* listing; an artifact that cannot be read or written is passed over
CopyArtifacts(entries) ==
  LET Copies(entry) == IsArtifact(entry) /\ entry.fails = ""
      done == SelectSeq(entries, Copies)
  IN  [copied |-> [k \in DOMAIN done |-> done[k].name], err |-> ""]

\* runNativeBuild(target, projectRoot, outputDir, buildConfig), the build leaving
\* `listing` in the build directory
runNativeBuild(target, outputDir, wasConfigured, listing) ==
  LET dirs == MkdirAll(TargetOutputDir(outputDir, target)) \cup MkdirAll(HostBuildDir(target))
      steps == ConfigureAndCompile(target, NoRef, <<>>, dirs, wasConfigured,
                                   "cmake configure", "cmake build", "cmake failed")
      copying == steps.compiled \o <<Ev("copy artifacts", target.name, NoRef)>>
      loop == CopyArtifacts(listing.entries)
      lines == [k \in DOMAIN loop.copied |->
                  [op |-> "Copied: " \o loop.copied[k], target |-> target.name,
                   ref |-> NoRef, n |-> 0]]
  IN  {Built(<<>>, {}, wasConfigured, FALSE, "failed to create target output directory")}
      \cup steps.failed
      \cup {IF ~listing.readable
            THEN Built(copying, dirs, TRUE, FALSE, "failed to read build directory")
            ELSE Built(copying \o lines, dirs, TRUE, Len(loop.copied) > 0, loop.err)}

\* ------------------------------------------------------------------- state
VARIABLES
  cfg,                \* cpx-ci.yaml: whether it loads, its targets, its output root
  dockerfile,         \* the file the build sub-descriptors name
  markers,            \* marker files at the project root
  images,             \* the local image store of the container engine
  dirs,               \* directories created below the project root
  configured,         \* targets whose persistent build directory holds build.ninja
  artifacts,          \* output directories into which artifacts were copied
  run,                \* processes started so far
  pc,                 \* "none": no process; "idle": between calls; "resolve", "build": in the loop of runCIBuild
  ciCommandExecuted,  \* the process-wide guard
  calls,              \* calls of runCIBuild made by the process
  call,               \* arguments of the call that runs the pipeline
  targets,            \* the targets that call selected
  idx,                \* loop index into targets
  imageName,          \* the image resolved for targets[idx]
  ret,                \* what the last call returned
  log,                \* commands run and lines printed by the process, in order
  attempts,           \* the targets the loop has finished with, each with its error
  resolutions,        \* every image resolution so far, over all processes
  hTarget,            \* hashing harness: the build-mode target
  hFile,              \* hashing harness: the Dockerfile content
  hEdited,            \* hashing harness: an input was edited since the last evaluation
  hist,               \* hashing harness: the evaluations made
  edit,               \* target store: the last add-target or rm-target command and its outcome
  settings,           \* build settings harness: a target, the global defaults, what a build used
  native,             \* native build harness: a build directory listing, what the build returned
  race,               \* concurrent processes: build.ninja of the shared build directory, each process's position
  builddir,           \* persistent build directory of one target: what it was configured with, the settings now
  picker,             \* target-selection UI of rm-target list: the document, the TargetModel, the keys handled
  form                \* add-target wizard: the CITargetModel, the keys handled, what RunAddTargetTUI returned

envVars == <<cfg, dockerfile, markers>>
diskVars == <<dirs, configured, artifacts>>
procVars == <<run, pc, ciCommandExecuted, calls, call, targets, idx, imageName, ret, log,
              attempts>>
hashVars == <<hTarget, hFile, hEdited, hist>>
orchVars == <<envVars, images, diskVars, procVars, resolutions>>
uiVars == <<picker, form>>
harnessVars == <<native, race, builddir, uiVars>>
editVars == <<edit, settings, harnessVars>>
vars == <<orchVars, hashVars, editVars>>

\* --------------------------------------------------------------- orchestrator
NoCall == [targetName |-> "", rebuild |-> FALSE, executeAfterBuild |-> FALSE]
NoReturn == [done |-> FALSE, err |-> "", target |-> "", cause |-> ""]
\* a returned error (err = "" is nil); errors of the loop name the target
Returned(err, target, cause) == [done |-> TRUE, err |-> err, target |-> target, cause |-> cause]

Printed(line, target, n) == [op |-> line, target |-> target, ref |-> NoRef, n |-> n]

\* ciConfig.Output, .bin/ci when empty
OutputDir(config) == IF config.output = "" THEN DefaultOutput ELSE config.output

\* a selection that filters the named target by its active flag too
SelectTargets_FiltersNamed(config, targetName) ==
  LET all == SelectSeq(config.targets, IsActive)
      named == {i \in 1..Len(all) : all[i].name = targetName}
      first == CHOOSE i \in named : \A j \in named : i <= j
      skippedCount == Len(config.targets) - Len(all)
  IN  IF targetName # ""
      THEN IF named = {}
           THEN [targets |-> <<>>, prints |-> <<>>, err |-> "target not found in cpx-ci.yaml"]
           ELSE [targets |-> <<all[first]>>, prints |-> <<>>, err |-> ""]
      ELSE [targets |-> all,
            prints |-> IF skippedCount > 0
                       THEN <<Printed("Skipping inactive target(s)", "", skippedCount)>>
                       ELSE <<>>,
            err |-> IF Len(all) = 0 THEN "no active targets defined in cpx-ci.yaml" ELSE ""]

\* the selection of runCIBuild: the named target, or the active targets
SelectTargets(config, targetName) ==
  LET all == config.targets
      named == {i \in 1..Len(all) : all[i].name = targetName}
      first == CHOOSE i \in named : \A j \in named : i <= j
      active == SelectSeq(all, IsActive)
      skippedCount == Len(all) - Len(active)
  IN  IF targetName # ""
      THEN IF named = {}
           THEN [targets |-> <<>>, prints |-> <<>>, err |-> "target not found in cpx-ci.yaml"]
           ELSE [targets |-> <<all[first]>>,
                 prints |-> IF IsActive(all[first]) THEN <<>>
                            ELSE <<Printed("Warning: target is marked as inactive", targetName, 0)>>,
                 err |-> ""]
      ELSE [targets |-> active,
            prints |-> IF skippedCount > 0
                       THEN <<Printed("Skipping inactive target(s)", "", skippedCount)>>
                       ELSE <<>>,
            err |-> IF Len(active) = 0 THEN "no active targets defined in cpx-ci.yaml" ELSE ""]

\* a preparation that creates the cache directory of every selected target
PreCached_All(selected) == DOMAIN selected

\* the targets whose .vcpkg_cache directory runCIBuild creates before the loop
PreCached(selected) ==
  {i \in 1..Len(selected) : selected[i].runner = "docker" /\ selected[i].docker.present}

\* the directory creation of runCIBuild before the loop: every place where it
\* can fail, and its success
Prepare(selected, outputDir) ==
  LET out == MkdirAll(<<outputDir>>)
      base == out \cup MkdirAll(<<CacheBase>>)
      cacheUpTo(n) == UNION {MkdirAll(VcpkgCacheDir(selected[i])) : i \in {j \in PreCached(selected) : j < n}}
  IN  {[dirs |-> {}, err |-> "failed to create output directory"],
       [dirs |-> out, err |-> "failed to get project root"],
       [dirs |-> out, err |-> "failed to create cache directory"],
       [dirs |-> base \cup cacheUpTo(Len(selected) + 1), err |-> ""]}
      \cup {[dirs |-> base \cup cacheUpTo(i), err |-> "failed to create target cache directory"] :
              i \in PreCached(selected)}

\* a dispatch that resolves an image for every runner
LoopPc_AlwaysResolves(t) == "resolve"

\* the head of a loop iteration: the progress line, then the dispatch on the runner
LoopHead(t) == <<Printed("Building target", t.name, 0)>>
LoopPc(t) == IF t.runner = "native" THEN "build" ELSE "resolve"

\* a guard test that never finds the guard set
GuardHit_Never(executed) == FALSE

\* if ciCommandExecuted { ... return nil }
GuardHit(executed) == executed

\* a loop that goes on to the next target after a failure
LoopStep_ContinueOnError(err, i, n) == IF i < n THEN "next" ELSE "return nil"

\* a loop that loses the error of the last target
LoopStep_LosesLastError(err, i, n) ==
  IF i = n THEN "return nil"
  ELSE IF err # "" THEN "return err"
  ELSE "next"

\* what the loop does when it has finished with target i of n with error err
LoopStep(err, i, n) ==
  IF err # "" THEN "return err"
  ELSE IF i < n THEN "next"
  ELSE "return nil"

Attempt(t, err) == [target |-> t.name, err |-> err]

\* a call that finds the guard set
SkipCall ==
  /\ log' = Append(log, Printed("CI command already executed, skipping", "", 0))
  /\ ret' = Returned("", "", "")
  /\ UNCHANGED <<ciCommandExecuted, call, targets, idx, imageName, pc, dirs>>

\* a call that runs the pipeline up to the loop
FirstCall(targetName, rebuild, executeAfterBuild) ==
  LET sel == SelectTargets(cfg, targetName)
      fail(err, prints, made) ==
        /\ ret' = Returned(err, "", "")
        /\ log' = log \o prints
        /\ dirs' = dirs \cup made
        /\ UNCHANGED <<targets, idx, imageName, pc>>
  IN  /\ ciCommandExecuted' = TRUE
      /\ call' = [targetName |-> targetName, rebuild |-> rebuild,
                  executeAfterBuild |-> executeAfterBuild]
      /\ IF ~cfg.loadable
         THEN fail("failed to load cpx-ci.yaml", <<>>, {})
         ELSE IF sel.err # ""
         THEN fail(sel.err, sel.prints, {})
         ELSE \E p \in Prepare(sel.targets, OutputDir(cfg)) :
                IF p.err # ""
                THEN fail(p.err, sel.prints, p.dirs)
                ELSE /\ targets' = sel.targets
                     /\ idx' = 1
                     /\ imageName' = NoRef
                     /\ pc' = LoopPc(sel.targets[1])
                     /\ ret' = NoReturn
                     /\ dirs' = dirs \cup p.dirs
                     /\ log' = log \o sel.prints \o LoopHead(sel.targets[1])

\* runCIBuild(targetName, rebuild, executeAfterBuild), up to its loop
RunCIBuild(targetName, rebuild, executeAfterBuild) ==
  /\ pc = "idle"
  /\ calls < MaxCalls
  /\ calls' = calls + 1
  /\ IF GuardHit(ciCommandExecuted)
     THEN SkipCall
     ELSE FirstCall(targetName, rebuild, executeAfterBuild)
  /\ UNCHANGED <<envVars, images, configured, artifacts, run, attempts, resolutions, hashVars, editVars>>

\* the loop of runCIBuild: resolveDockerImage for targets[idx]
ResolveImage ==
  /\ pc = "resolve"
  /\ LET t == targets[idx]
     IN  \E o \in resolveDockerImage(t, call.rebuild, images, dockerfile) :
           /\ log' = log \o o.events
           /\ images' = o.images
           /\ resolutions' = Append(resolutions,
                [run |-> run, target |-> t, rebuild |-> call.rebuild, file |-> dockerfile,
                 before |-> images, images |-> o.images, events |-> o.events,
                 ref |-> o.ref, err |-> o.err])
           /\ IF o.err # ""
              THEN /\ attempts' = Append(attempts, Attempt(t, o.err))
                   /\ imageName' = NoRef
                   /\ CASE LoopStep(o.err, idx, Len(targets)) = "return err" ->
                             /\ ret' = Returned("failed to resolve Docker image", t.name, o.err)
                             /\ pc' = "idle"
                             /\ idx' = idx
                        [] LoopStep(o.err, idx, Len(targets)) = "next" ->
                             /\ ret' = ret
                             /\ pc' = LoopPc(targets[idx + 1])
                             /\ idx' = idx + 1
                        [] OTHER ->
                             /\ ret' = Returned("", "", "")
                             /\ pc' = "idle"
                             /\ idx' = idx
              ELSE /\ ret' = ret
                   /\ pc' = "build"
                   /\ idx' = idx
                   /\ imageName' = o.ref
                   /\ attempts' = attempts
  /\ UNCHANGED <<envVars, diskVars, run, ciCommandExecuted, calls, call, targets, hashVars, editVars>>

\* what a native build may leave in its build directory
BuildListings ==
  {Unreadable, Listing(<<>>), Listing(<<DirEntry("app", FALSE, TRUE, "")>>)}

\* the loop of runCIBuild: the build of targets[idx] and the step to the next
\* target or the return
RunBuild ==
  /\ pc = "build"
  /\ LET t == targets[idx]
         out == OutputDir(cfg)
         was == t.name \in configured
         outcomes == IF t.runner = "native"
                     THEN UNION {runNativeBuild(t, out, was, l) : l \in BuildListings}
                     ELSE runDockerBuildWithImage(t, imageName, out, call.executeAfterBuild,
                                                  markers, was)
         done == IF call.executeAfterBuild
                 THEN <<Printed("Target completed", t.name, 0)>>
                 ELSE <<Printed("Target built successfully", t.name, 0)>>
         summary == IF call.executeAfterBuild THEN <<>>
                    ELSE <<Printed("All targets built successfully", "", 0),
                           Printed("Artifacts are in: " \o out, "", 0)>>
     IN  \E o \in outcomes :
           /\ dirs' = dirs \cup o.dirs
                        \cup (IF o.copied THEN MkdirAll(ArtifactDir(t, out)) ELSE {})
           /\ configured' = IF o.configured THEN configured \cup {t.name} ELSE configured
           /\ artifacts' = IF o.copied THEN artifacts \cup {ArtifactDir(t, out)} ELSE artifacts
           /\ imageName' = NoRef
           /\ attempts' = Append(attempts, Attempt(t, o.err))
           /\ CASE LoopStep(o.err, idx, Len(targets)) = "return err" ->
                     /\ ret' = Returned("failed to build target", t.name, o.err)
                     /\ log' = log \o o.events
                     /\ pc' = "idle"
                     /\ idx' = idx
                [] LoopStep(o.err, idx, Len(targets)) = "next" ->
                     /\ ret' = ret
                     /\ log' = log \o o.events
                               \o (IF o.err = "" THEN done ELSE <<>>)
                               \o LoopHead(targets[idx + 1])
                     /\ pc' = LoopPc(targets[idx + 1])
                     /\ idx' = idx + 1
                [] OTHER ->
                     /\ ret' = Returned("", "", "")
                     /\ log' = log \o o.events \o (IF o.err = "" THEN done ELSE <<>>) \o summary
                     /\ pc' = "idle"
                     /\ idx' = idx
  /\ UNCHANGED <<envVars, images, run, ciCommandExecuted, calls, call, targets, resolutions, hashVars, editVars>>

\* ------------------------------------------------------------------ processes
\* the cpx binary is started: a fresh process, the guard unset
StartProcess ==
  /\ pc = "none"
  /\ run < MaxRuns
  /\ run' = run + 1
  /\ pc' = "idle"
  /\ ciCommandExecuted' = FALSE
  /\ calls' = 0
  /\ call' = NoCall
  /\ targets' = <<>>
  /\ idx' = 0
  /\ imageName' = NoRef
  /\ ret' = NoReturn
  /\ log' = <<>>
  /\ attempts' = <<>>
  /\ UNCHANGED <<envVars, images, diskVars, resolutions, hashVars, editVars>>

\* the process ends after its command handler returned
ExitProcess ==
  /\ pc = "idle"
  /\ calls > 0
  /\ pc' = "none"
  /\ UNCHANGED <<envVars, images, diskVars, run, ciCommandExecuted, calls, call, targets, idx,
                 imageName, ret, log, attempts, resolutions, hashVars, editVars>>

FileStates == {MissingFile, UnreadableFile, FileOf(<<97>>), FileOf(<<98>>)}

\* the user edits, removes or protects the Dockerfile between two runs
EditDockerfile ==
  /\ pc = "none"
  /\ run > 0
  /\ run < MaxRuns
  /\ \E f \in FileStates \ {dockerfile} : dockerfile' = f
  /\ UNCHANGED <<cfg, markers, images, diskVars, procVars, resolutions, hashVars, editVars>>

\* the platforms and image labels a build-mode descriptor is edited between
Platforms == {"linux/amd64", "linux/arm64"}
Labels == {"label", "cpx-t1"}

\* the user edits docker.platform or docker.image of the target in cpx-ci.yaml
\* between two runs
EditDescriptor ==
  /\ pc = "none"
  /\ run > 0
  /\ run < MaxRuns
  /\ Len(cfg.targets) = 1
  /\ cfg.targets[1].docker.present
  /\ \/ \E pf \in Platforms \ {cfg.targets[1].docker.platform} :
          cfg' = [cfg EXCEPT !.targets[1].docker.platform = pf]
     \/ \E label \in Labels \ {cfg.targets[1].docker.image} :
          cfg' = [cfg EXCEPT !.targets[1].docker.image = label]
  /\ UNCHANGED <<dockerfile, markers, images, diskVars, procVars, resolutions, hashVars, editVars>>

\* ------------------------------------------------------------ hashing harness
ArgKeys == {KeyA, KeyB}
ArgValues == StringsUpTo(1)
ArgMaps == UNION {[K -> ArgValues] : K \in SUBSET ArgKeys}

HashTarget(name, image, platform, args) ==
  TargetOf(name, "docker", TRUE, DockerOf("build", image, platform, "", BuildOf(args)))

\* lines 655-662 of handleBuildMode: the hash of the Dockerfile and the args,
\* and the tag made of it, with the map enumerated in some order
HashBuildConfig ==
  /\ Len(hist) < 2
  /\ \E order \in RangeOrders(hTarget.docker.build.args) :
       LET hashed == hashDockerBuildConfig(FileOf(hFile), hTarget.docker.build.args, order)
       IN  hist' = Append(hist,
                     [target |-> hTarget, content |-> hFile, order |-> order,
                      hash |-> hashed.hash, tag |-> BuildTag(hTarget, hashed.hash)])
  /\ hEdited' = FALSE
  /\ UNCHANGED <<hTarget, hFile, orchVars, editVars>>

CanEdit == Len(hist) = 1 /\ ~hEdited

\* the Dockerfile is edited between two evaluations
HashEditDockerfile ==
  /\ CanEdit
  /\ \E c \in StringsUpTo(MaxLen) \ {hFile} : hFile' = c
  /\ hEdited' = TRUE
  /\ UNCHANGED <<hTarget, hist, orchVars, editVars>>

WithArgs(t, args) == [t EXCEPT !.docker.build.args = args]

\* one build arg is given another value, added or removed
HashEditArg ==
  /\ CanEdit
  /\ LET args == hTarget.docker.build.args
     IN  \E new \in ArgMaps \ {args} :
           /\ \/ /\ DOMAIN new = DOMAIN args
                 /\ Cardinality({k \in DOMAIN args : new[k] # args[k]}) = 1
              \/ /\ Cardinality(DOMAIN new) = Cardinality(DOMAIN args) + 1
                 /\ \A k \in DOMAIN args : k \in DOMAIN new /\ new[k] = args[k]
              \/ /\ Cardinality(DOMAIN args) = Cardinality(DOMAIN new) + 1
                 /\ \A k \in DOMAIN new : k \in DOMAIN args /\ new[k] = args[k]
           /\ hTarget' = WithArgs(hTarget, new)
  /\ hEdited' = TRUE
  /\ UNCHANGED <<hFile, hist, orchVars, editVars>>

\* the target is renamed, or gets another platform or another image label
HashEditTarget ==
  /\ CanEdit
  /\ \/ hTarget' = [hTarget EXCEPT !.name = IF @ = "t1" THEN "t2" ELSE "t1"]
     \/ hTarget' = [hTarget EXCEPT !.docker.platform = IF @ = "" THEN "linux/arm64" ELSE ""]
     \/ hTarget' = [hTarget EXCEPT !.docker.image = IF @ = "label" THEN "other" ELSE "label"]
  /\ hEdited' = TRUE
  /\ UNCHANGED <<hFile, hist, orchVars, editVars>>

\* the build-arg mappings of the second build configuration
OtherArgMaps == {m \in ArgMaps : DOMAIN m \subseteq {KeyA}}

\* another build configuration is hashed next: another Dockerfile, other args, or both
HashOtherConfig ==
  /\ CanEdit
  /\ \E c \in StringsUpTo(MaxContent), args \in OtherArgMaps :
       /\ <<c, args>> # <<hFile, hTarget.docker.build.args>>
       /\ hFile' = c
       /\ hTarget' = WithArgs(hTarget, args)
  /\ hEdited' = TRUE
  /\ UNCHANGED <<hist, orchVars, editVars>>

\* --------------------------------------------------- target descriptor store
\* The commands add-target and rm-target load cpx-ci.yaml, change the list of
\* targets and save the document. cfg is the document as LoadCI reads it.

\* config.SaveCI(ciConfig, "cpx-ci.yaml"): the whole document is written
SaveCI(ciConfig) ==
  [loadable |-> TRUE, targets |-> ciConfig.targets, output |-> ciConfig.output]
\* config.LoadCI("cpx-ci.yaml"): the document, or an error
LoadCI(file) == [err |-> ~file.loadable, config |-> file]

\* the configuration add-target starts from when cpx-ci.yaml does not load
NewCIConfig == [loadable |-> TRUE, targets |-> <<>>, output |-> DefaultOutput]

\* the options of the wizard (NewCITargetModel)
runnerOptions == <<"docker", "native">>
dockerModeOptions == <<"pull", "build", "local">>
platformOptions == <<"linux/amd64", "linux/arm64", "linux/arm/v7", "None">>
buildTypeOptions == <<"Release", "Debug", "RelWithDebInfo", "MinSizeRel">>

\* names with a character other than letters, digits, hyphens and underscores
InvalidNames == {"bad name"}
\* characters of the names typed that are none of these
OtherChars == {" ", "!"}
isValidProjectName(name) ==
  /\ name \notin InvalidNames
  /\ \A i \in 1..Len(name) : SubSeq(name, i, i) \notin OtherChars

\* what the user does in one run of the wizard: the name and image typed (after
\* trimming), the cursor position at each selection, and whether the user
\* leaves with ctrl+c or esc; failed is an error of the terminal program
NameInputs == {"", "bad name", "t1", "t4"}
ImageInputs == {""}
PlatformCursors == {1, Len(platformOptions)}
BuildTypeCursors == {2}
WizardInputs ==
  [name : NameInputs, runner : DOMAIN runnerOptions, dockerMode : DOMAIN dockerModeOptions,
   image : ImageInputs, platform : PlatformCursors, buildType : BuildTypeCursors,
   quit : BOOLEAN, failed : BOOLEAN]

\* handleEnter at CIStepName: the name is accepted
NameAccepted(name) == name # "" /\ isValidProjectName(name)

\* handleEnter at CIStepDockerImage: the image, or the default of the mode
ImageOf(input) ==
  IF input.image # "" THEN input.image
  ELSE IF dockerModeOptions[input.dockerMode] = "pull" THEN "ubuntu:22.04"
  ELSE "cpx-" \o input.name

\* handleEnter at CIStepPlatform: the last option stands for no platform
PlatformOf(input) ==
  IF input.platform = Len(platformOptions) THEN "" ELSE platformOptions[input.platform]

\* GetConfig after CIStepDone: the CITargetConfig of the answers; the docker
\* steps are skipped for the native runner and leave the initial values
GetConfig(input) ==
  LET docker == runnerOptions[input.runner] = "docker"
  IN  [Name |-> input.name,
       Runner |-> runnerOptions[input.runner],
       DockerMode |-> IF docker THEN dockerModeOptions[input.dockerMode] ELSE "pull",
       Image |-> IF docker THEN ImageOf(input) ELSE "",
       Platform |-> IF docker THEN PlatformOf(input) ELSE "",
       BuildType |-> buildTypeOptions[input.buildType]]

\* RunAddTargetTUI: an error, nothing when the user cancels (a name that is not
\* accepted keeps the wizard at its first step until the user cancels), or the
\* CITargetConfig
RunAddTargetTUI(input) ==
  IF input.failed THEN [err |-> TRUE, cancelled |-> FALSE, config |-> GetConfig(input)]
  ELSE IF input.quit \/ ~NameAccepted(input.name)
       THEN [err |-> FALSE, cancelled |-> TRUE, config |-> GetConfig(input)]
  ELSE [err |-> FALSE, cancelled |-> FALSE, config |-> GetConfig(input)]

\* how the run of the wizard ended
WizardEnd(input) ==
  LET tui == RunAddTargetTUI(input)
  IN  IF tui.err THEN "failed" ELSE IF tui.cancelled THEN "cancelled" ELSE "completed"

\* CITargetConfig.ToCITarget()
ToCITarget(c) ==
  [TargetOf(c.Name, c.Runner, TRUE,
            IF c.Runner = "docker"
            THEN DockerOf(c.DockerMode, c.Image, c.Platform, "", NoBuild)
            ELSE NoDocker)
   EXCEPT !.buildType = c.BuildType]

\* what a command did: the document afterwards, the calls of SaveCI, the error
Edited(file, saves, err) == [file |-> file, saves |-> saves, err |-> err]

\* SaveCI at the end of a command: the document is written, or an error is returned
SaveAndReturn(file, ciConfig, saveFails) ==
  IF saveFails THEN Edited(file, 1, "failed to save cpx-ci.yaml")
  ELSE Edited(SaveCI(ciConfig), 1, "")

\* an add-target that puts the new target in front
runAddTarget_Prepends(file, input, saveFails) ==
  LET loaded == LoadCI(file)
      ciConfig == IF loaded.err THEN NewCIConfig ELSE loaded.config
      tui == RunAddTargetTUI(input)
  IN  IF tui.err THEN Edited(file, 0, "TUI error")
      ELSE IF tui.cancelled THEN Edited(file, 0, "")
      ELSE SaveAndReturn(file,
                         [ciConfig EXCEPT !.targets = <<ToCITarget(tui.config)>> \o @],
                         saveFails)

\* runAddTarget
runAddTarget(file, input, saveFails) ==
  LET loaded == LoadCI(file)
      ciConfig == IF loaded.err THEN NewCIConfig ELSE loaded.config
      tui == RunAddTargetTUI(input)
  IN  IF tui.err THEN Edited(file, 0, "TUI error")
      ELSE IF tui.cancelled THEN Edited(file, 0, "")
      ELSE SaveAndReturn(file,
                         [ciConfig EXCEPT !.targets = Append(@, ToCITarget(tui.config))],
                         saveFails)

\* the selection of the interactive mode of rm-target: the input is "all" or a
\* set of numbers, of which those within the list count
PickInputs == [all : BOOLEAN, numbers : {{}, {2}, {1, 7}}]
selectedToRemove(list, input) ==
  IF input.all THEN {list[i].name : i \in DOMAIN list}
  ELSE {list[i].name : i \in input.numbers \cap DOMAIN list}

\* a filter that stops at the first target to remove and drops the rest
FilterTargets_DropsTail(list, toRemove) ==
  LET hits == {i \in DOMAIN list : list[i].name \in toRemove}
  IN  IF hits = {} THEN list
      ELSE SubSeq(list, 1, (CHOOSE i \in hits : \A j \in hits : i <= j) - 1)

\* the filter loop of runRemoveTarget: the targets kept, in order
FilterTargets(list, toRemove) ==
  SelectSeq(list, LAMBDA t : t.name \notin toRemove)

\* runRemoveTarget(args), with the input of the interactive mode
runRemoveTarget(file, args, input, saveFails) ==
  LET loaded == LoadCI(file)
      ciConfig == loaded.config
      toRemove == IF args = {} THEN selectedToRemove(ciConfig.targets, input) ELSE args
      newTargets == FilterTargets(ciConfig.targets, toRemove)
  IN  IF loaded.err THEN Edited(file, 0, "failed to load cpx-ci.yaml")
      ELSE IF Len(ciConfig.targets) = 0 THEN Edited(file, 0, "")
      ELSE IF toRemove = {} THEN Edited(file, 0, "")
      ELSE IF Len(newTargets) = Len(ciConfig.targets) THEN Edited(file, 0, "")
      ELSE SaveAndReturn(file, [ciConfig EXCEPT !.targets = newTargets], saveFails)

\* the names given to rm-target
RemoveArgs == SUBSET {"t1", "t3", "tx"}

\* one more command of the target store
Command(name, args, wizard, result) ==
  /\ edit.n < MaxEdits
  /\ cfg' = result.file
  /\ edit' = [cmd |-> name, args |-> args, wizard |-> wizard, saves |-> result.saves,
              err |-> result.err, n |-> edit.n + 1]
  /\ UNCHANGED <<dockerfile, markers, images, diskVars, procVars, resolutions, hashVars,
                 settings, harnessVars>>

\* cpx ci add-target
AddTarget ==
  \E input \in WizardInputs, saveFails \in BOOLEAN :
    Command("add-target", {}, WizardEnd(input), runAddTarget(cfg, input, saveFails))

\* cpx ci rm-target [NAME...]
RemoveTarget ==
  \E args \in RemoveArgs, input \in PickInputs, saveFails \in BOOLEAN :
    Command("rm-target", args, "", runRemoveTarget(cfg, args, input, saveFails))

\* ------------------------------------------------------------ build settings
\* config.CIBuild: the global build defaults
BuildDefaults(type, cmakeArgs, buildArgs, jobs) ==
  [type |-> type, optimization |-> "", cmakeArgs |-> cmakeArgs, buildArgs |-> buildArgs,
   jobs |-> jobs]

\* a choice of options that puts the target's list after the global one
EffectiveOptions_Merged(own, global) == global \o own

\* cmakeOptions := target.CMakeOptions; if len(cmakeOptions) == 0 { cmakeOptions = buildConfig.CMakeArgs }
\* (and likewise for the build options)
EffectiveOptions(own, global) == IF Len(own) = 0 THEN global ELSE own

\* buildType := target.BuildType, else buildConfig.Type
ConfiguredBuildType(target, buildConfig) ==
  IF target.buildType # "" THEN target.buildType ELSE buildConfig.type

\* the build type of the CMake strategies: Release when neither is set
EffectiveBuildType(target, buildConfig) ==
  IF ConfiguredBuildType(target, buildConfig) = "" THEN "Release"
  ELSE ConfiguredBuildType(target, buildConfig)

\* optLevel := buildConfig.Optimization, "2" when empty
OptLevel(buildConfig) == IF buildConfig.optimization = "" THEN "2" ELSE buildConfig.optimization

\* the configuration name of the Bazel and Meson strategies
ToolBuildType(target, buildConfig) ==
  IF ConfiguredBuildType(target, buildConfig) \in {"Debug", "debug"} THEN "debug" ELSE "release"

\* cmakeArgs of runDockerBuildWithImage and of runNativeBuild
CMakeArgs(strategy, target, buildConfig) ==
  (IF strategy = "native"
   THEN <<"-GNinja", "-B", "absBuildDir", "-S", "absProjectRoot",
          "-DCMAKE_BUILD_TYPE=" \o EffectiveBuildType(target, buildConfig),
          "-DCMAKE_CXX_FLAGS=-O" \o OptLevel(buildConfig)>>
   ELSE <<"-GNinja", "-B", "/tmp/build", "-S", "/workspace",
          "-DCMAKE_BUILD_TYPE=" \o EffectiveBuildType(target, buildConfig),
          "-DCMAKE_TOOLCHAIN_FILE=/opt/vcpkg/scripts/buildsystems/vcpkg.cmake",
          "-DCMAKE_CXX_FLAGS=-O" \o OptLevel(buildConfig),
          "-DVCPKG_DISABLE_REGISTRY_UPDATE=ON">>)
  \o EffectiveOptions(target.cmakeOptions, buildConfig.cmakeArgs)

\* buildArgs of runDockerBuildWithImage and of runNativeBuild
CMakeBuildArgs(strategy, target, buildConfig) ==
  <<"--build", IF strategy = "native" THEN "absBuildDir" ELSE "/tmp/build",
    "--config", EffectiveBuildType(target, buildConfig)>>
  \o (IF buildConfig.jobs > 0 THEN <<"--parallel", ToString(buildConfig.jobs)>> ELSE <<>>)
  \o EffectiveOptions(target.buildOptions, buildConfig.buildArgs)

\* the arguments a strategy derives from the settings: the configure and build
\* arguments of the CMake strategies, the configuration of Bazel and Meson
ArgumentsOf(strategy, target, buildConfig) ==
  IF strategy \in {"native", "cmake"}
  THEN [configure |-> CMakeArgs(strategy, target, buildConfig),
        build |-> CMakeBuildArgs(strategy, target, buildConfig)]
  ELSE IF strategy = "bazel"
  THEN [configure |-> <<>>, build |-> <<"--config=" \o ToolBuildType(target, buildConfig)>>]
  ELSE [configure |-> <<"setup", "builddir", "--buildtype=" \o ToolBuildType(target, buildConfig)>>,
        build |-> <<>>]

\* the settings explored
TargetBuildTypes == {"", "Debug", "MinSizeRel"}
GlobalBuildTypes == {"", "Debug", "RelWithDebInfo"}
TargetCMakeOptions == {<<>>, <<"-DT=1">>, <<"-DT=1", "-DT=2">>}
GlobalCMakeArgs == {<<>>, <<"-DG=1">>}
TargetBuildOptions == {<<>>, <<"-v">>}
GlobalBuildArgs == {<<>>, <<"-k">>}
JobCounts == {0, 4}
SettingsTargets ==
  {[TargetOf("t1", "docker", TRUE, DockerOf("local", "img", "", "", NoBuild))
      EXCEPT !.buildType = bt, !.cmakeOptions = co, !.buildOptions = bo] :
     bt \in TargetBuildTypes, co \in TargetCMakeOptions, bo \in TargetBuildOptions}
SettingsDefaults ==
  {BuildDefaults(ty, ca, ba, j) :
     ty \in GlobalBuildTypes, ca \in GlobalCMakeArgs, ba \in GlobalBuildArgs, j \in JobCounts}

\* a build of the target with one of the strategies derives its arguments
DeriveArguments ==
  /\ ~settings.used
  /\ \E strategy \in {"native", "cmake", "bazel", "meson"} :
       settings' = [settings EXCEPT
                      !.used = TRUE,
                      !.strategy = strategy,
                      !.args = ArgumentsOf(strategy, settings.target, settings.build)]
  /\ UNCHANGED <<orchVars, hashVars, edit, harnessVars>>

\* --------------------------------------------------------- native artifacts
\* the entries a build directory may hold, in the order of os.ReadDir (sorted by
\* name), each with the ways its copy may fail
EntryPool ==
  <<{DirEntry("CMakeCache.txt", FALSE, FALSE, "")},
    {DirEntry("CMakeFiles", TRUE, TRUE, "")},
    {DirEntry("app", FALSE, TRUE, f) : f \in {"", "info", "read", "write"}},
    {DirEntry("build.ninja", FALSE, FALSE, "")},
    {DirEntry("libx.a", FALSE, FALSE, f) : f \in {"", "write"}},
    {DirEntry("notes", FALSE, FALSE, "")}>>

\* the places of a set of places of the pool, in increasing order
Ordered(places) ==
  CHOOSE s \in [1..Cardinality(places) -> places] :
    \A i, j \in 1..Cardinality(places) : i < j => s[i] < s[j]

\* the listings of up to MaxEntries entries, and the failure of os.ReadDir
Listings ==
  {Unreadable}
  \cup UNION {{Listing([k \in 1..Cardinality(places) |-> pick[Ordered(places)[k]]]) :
                pick \in {f \in [places -> UNION {EntryPool[i] : i \in places}] :
                            \A i \in places : f[i] \in EntryPool[i]}} :
               places \in {q \in SUBSET DOMAIN EntryPool : Cardinality(q) <= MaxEntries}}

NativeTarget == TargetOf("t1", "native", TRUE, NoDocker)

\* one native build of the target, its build directory holding native.listing
\* when the build step is over
NativeBuild ==
  /\ ~native.used
  /\ \E o \in runNativeBuild(NativeTarget, DefaultOutput, native.configured, native.listing) :
       native' = [native EXCEPT !.used = TRUE, !.out = o]
  /\ UNCHANGED <<orchVars, hashVars, edit, settings, race, builddir, uiVars>>

\* ------------------------------------------------- persistent build directory
\* the strategies with a configure step guarded by build.ninja
GuardedStrategies == {"native", "cmake", "meson"}
ConfigureOpOf(strategy) == IF strategy = "meson" THEN "meson setup" ELSE "cmake configure"
CompileOpOf(strategy) == IF strategy = "meson" THEN "meson compile" ELSE "cmake build"

\* one run of the target with the settings of the moment: the configure step, when
\* it runs and succeeds, leaves its arguments in the build directory; the build
\* step gets the build arguments of the moment
BuildInDir ==
  /\ builddir.runs < MaxRuns
  /\ LET t == builddir.target
         now == ArgumentsOf(builddir.strategy, t, builddir.build)
         steps == ConfigureAndCompile(t, NoRef, <<>>, {}, builddir.ninja,
                                      ConfigureOpOf(builddir.strategy),
                                      CompileOpOf(builddir.strategy), "build failed")
         outcomes == steps.failed \cup {Built(steps.compiled, {}, TRUE, FALSE, "")}
     IN  \E o \in outcomes :
           LET configureRan == \E k \in DOMAIN o.events :
                                 o.events[k].op = ConfigureOpOf(builddir.strategy)
           IN  builddir' = [builddir EXCEPT
                              !.runs = @ + 1,
                              !.edited = FALSE,
                              !.ninja = o.configured,
                              !.configuredWith =
                                 IF configureRan /\ o.configured THEN now.configure ELSE @,
                              !.last = [configureRan |-> configureRan,
                                        buildArgs |-> now.build,
                                        err |-> o.err]]
  /\ UNCHANGED <<orchVars, hashVars, edit, settings, native, race, uiVars>>

\* the settings a user changes between two runs
DirBuildTypes == {"", "Debug", "MinSizeRel"}
DirCMakeOptions == {<<>>, <<"-DT=1">>}

\* the user changes the build type or the CMake options of the target, or the
\* global build type or CMake arguments, between two runs
EditSettings ==
  /\ builddir.runs > 0
  /\ builddir.runs < MaxRuns
  /\ \/ \E bt \in DirBuildTypes \ {builddir.target.buildType} :
          builddir' = [builddir EXCEPT !.target.buildType = bt, !.edited = TRUE]
     \/ \E co \in DirCMakeOptions \ {builddir.target.cmakeOptions} :
          builddir' = [builddir EXCEPT !.target.cmakeOptions = co, !.edited = TRUE]
     \/ \E ty \in DirBuildTypes \ {builddir.build.type} :
          builddir' = [builddir EXCEPT !.build.type = ty, !.edited = TRUE]
     \/ \E ca \in GlobalCMakeArgs \ {builddir.build.cmakeArgs} :
          builddir' = [builddir EXCEPT !.build.cmakeArgs = ca, !.edited = TRUE]
  /\ UNCHANGED <<orchVars, hashVars, edit, settings, native, race, uiVars>>

\* ------------------------------------------------------ concurrent processes
\* Orchestrator processes started side by side in one project, each building the
\* same native target.  A process is at "idle" (between calls of runCIBuild),
\* "stat" (before the test for build.ninja), "configure" or "build" (its cmake
\* command is running) or "copy" (in the copy loop); `saw` is what its test for
\* build.ninja found.
Procs == 1..MaxProcs

ProcState(at, executed, n, err) ==
  [pc |-> at, executed |-> executed, calls |-> n, err |-> err, saw |-> ""]

\* a guard that every process of the project shares
ProcessGuard_Shared(r, p) == \E q \in Procs : r.proc[q].executed

\* ciCommandExecuted: a package variable, one per process
ProcessGuard(r, p) == r.proc[p].executed

\* a step of process p: nothing of another process changes
ProcStep(p, state, ninja) ==
  /\ race' = [race EXCEPT !.proc[p] = state, !.ninja = ninja]
  /\ UNCHANGED <<orchVars, hashVars, edit, settings, native, builddir, uiVars>>

\* runCIBuild is called in process p: the guard, then the way to runNativeBuild
RaceCall(p) ==
  LET me == race.proc[p]
  IN  /\ me.pc = "idle"
      /\ me.calls < MaxCalls
      /\ IF GuardHit(ProcessGuard(race, p))
         THEN ProcStep(p, ProcState("idle", me.executed, me.calls + 1, ""), race.ninja)
         ELSE ProcStep(p, ProcState("stat", TRUE, me.calls + 1, ""), race.ninja)

\* os.Stat(ninjaFile): the configure command is started when the file is absent,
\* the build command otherwise
RaceStat(p) ==
  LET me == race.proc[p]
  IN  /\ me.pc = "stat"
      /\ ProcStep(p, [me EXCEPT !.pc = IF race.ninja THEN "build" ELSE "configure",
                                !.saw = IF race.ninja THEN "present" ELSE "absent"],
                  race.ninja)

\* the configure command of process p returns: it has written build.ninja, or failed
RaceConfigured(p) ==
  LET me == race.proc[p]
  IN  /\ me.pc = "configure"
      /\ \/ ProcStep(p, [me EXCEPT !.pc = "build"], TRUE)
         \/ ProcStep(p, [me EXCEPT !.pc = "idle", !.err = "cmake failed"], race.ninja)

\* the build command of process p returns: the copy loop is next, or the error
RaceBuilt(p) ==
  LET me == race.proc[p]
  IN  /\ me.pc = "build"
      /\ \/ ProcStep(p, [me EXCEPT !.pc = "copy"], race.ninja)
         \/ ProcStep(p, [me EXCEPT !.pc = "idle", !.err = "cmake failed"], race.ninja)

\* the copy loop of process p is over, and with it runNativeBuild and runCIBuild
RaceCopied(p) ==
  LET me == race.proc[p]
  IN  /\ me.pc = "copy"
      /\ \E err \in {"", "failed to read build directory"} :
           ProcStep(p, [me EXCEPT !.pc = "idle", !.err = err], race.ninja)

\* ------------------------------------------------------ target-selection UI
\* rm-target list opens the target-selection UI (TargetModel) over the targets
\* of cpx-ci.yaml. The terminal program hands every key press to Update. The
\* tea.Quit that Update returns is a command: it runs beside the event loop and
\* its message ends the program when the loop receives it, so a key read
\* before that message is still handled by Update.

\* most targets in a list the UI shows
MaxShown == 3
\* most key presses in one session of a UI
MaxKeys == 4
\* rows of the viewport (viewSize is 15 in NewTargetModel, scaled to the lists shown)
ViewSize == 2

\* the lists shown: t1, t2, ... (names are unique within a list)
ShownList(n) == [i \in 1..n |-> "t" \o ToString(i)]
ShownLists == {ShownList(n) : n \in 0..MaxShown}

\* msg.String() of the keys pressed; "x" is a key without a binding
QuitKeys == {"ctrl+c", "q", "esc"}
SelectKeys == QuitKeys \cup {"enter", "up", "k", "down", "j", " ", "tab", "a", "n", "x"}

\* NewTargetModel(targets, nil, title); indices count from 0 as in the code
NewTargetModel(list) ==
  [state |-> "Selecting", targets |-> list, cursor |-> 0, selected |-> {},
   quitting |-> FALSE, viewport |-> 0, viewSize |-> ViewSize]

\* what Update returns: the model and whether the command is tea.Quit
Handled(m, quit) == [m |-> m, quit |-> quit]

\* the cursor moves down one row, the viewport follows
CursorDown(m) ==
  IF m.cursor < Len(m.targets) - 1
  THEN LET c == m.cursor + 1
       IN  [m EXCEPT !.cursor = c,
                     !.viewport = IF c >= m.viewport + m.viewSize
                                  THEN c - m.viewSize + 1 ELSE @]
  ELSE m

\* the cursor moves up one row, the viewport follows
CursorUp(m) ==
  IF m.cursor > 0
  THEN LET c == m.cursor - 1
       IN  [m EXCEPT !.cursor = c, !.viewport = IF c < m.viewport THEN c ELSE @]
  ELSE m

\* TargetModel.Update(msg) for a key press
TargetModel_Update(m, msg) ==
  CASE msg \in QuitKeys -> Handled([m EXCEPT !.quitting = TRUE], TRUE)
    [] msg = "enter" ->
         Handled([m EXCEPT !.selected = IF @ = {} THEN {m.cursor} ELSE @,
                           !.state = "Done"], TRUE)
    [] msg \in {"up", "k"} -> Handled(CursorUp(m), FALSE)
    [] msg \in {"down", "j"} -> Handled(CursorDown(m), FALSE)
    [] msg = " " ->
         Handled([m EXCEPT !.selected = IF m.cursor \in @ THEN @ \ {m.cursor}
                                        ELSE @ \cup {m.cursor}], FALSE)
    [] msg = "tab" -> Handled(CursorDown([m EXCEPT !.selected = @ \cup {m.cursor}]), FALSE)
    [] msg = "a" -> Handled([m EXCEPT !.selected = @ \cup (0..(Len(m.targets) - 1))], FALSE)
    [] msg = "n" -> Handled([m EXCEPT !.selected = {}], FALSE)
    [] OTHER -> Handled(m, FALSE)

\* what RunTargetSelection returns: an error, a panic, or the names selected
Selection(err, panic, names) == [err |-> err, panic |-> panic, names |-> names]

\* TargetModel.GetSelected(): m.targets[i].Name for every i of the selected
\* set; an index outside the list is an index out of range
GetSelected(m) ==
  IF \E i \in m.selected : i + 1 \notin DOMAIN m.targets
  THEN Selection(FALSE, TRUE, {})
  ELSE Selection(FALSE, FALSE, {m.targets[i + 1] : i \in m.selected})

\* RunTargetSelection once p.Run() has returned the final model
RunTargetSelection(m, failed) ==
  IF failed THEN Selection(TRUE, FALSE, {})
  ELSE IF m.quitting /\ m.state # "Done" THEN Selection(FALSE, FALSE, {})
  ELSE GetSelected(m)

\* the session of the UI: the document, the position of the command ("start",
\* "ui", "returned"), the model, whether a tea.Quit is on its way, the keys
\* handled, the first key that returned tea.Quit with the model it was handed
\* to, whether a key was handled after it, and what the command left
Session(file, at, m) ==
  [used |-> TRUE, file |-> file, at |-> at, m |-> m, quit |-> FALSE, keys |-> 0,
   first |-> "", before |-> m, late |-> FALSE, saves |-> 0, err |-> "", panic |-> FALSE]

\* the targets of the document as the UI lists them
ShownOf(list) == [i \in DOMAIN list |-> list[i].name]

\* runListRemoveTargets up to the UI: the document is loaded; the command
\* returns when it does not load or has no target, else the UI opens
ListRemoveOpen ==
  /\ picker.used /\ picker.at = "start"
  /\ LET loaded == LoadCI(picker.file)
     IN  picker' =
           IF loaded.err
           THEN [picker EXCEPT !.at = "returned", !.err = "failed to load cpx-ci.yaml"]
           ELSE IF Len(loaded.config.targets) = 0 THEN [picker EXCEPT !.at = "returned"]
           ELSE [picker EXCEPT !.at = "ui",
                               !.m = NewTargetModel(ShownOf(loaded.config.targets))]
  /\ UNCHANGED <<orchVars, hashVars, edit, settings, native, race, builddir, form>>

\* the event loop hands one key press to Update
PressKey ==
  /\ picker.used /\ picker.at = "ui" /\ picker.keys < MaxKeys
  /\ \E msg \in SelectKeys :
       LET out == TargetModel_Update(picker.m, msg)
           isFirst == out.quit /\ ~picker.quit
       IN  picker' = [picker EXCEPT !.m = out.m,
                                    !.quit = @ \/ out.quit,
                                    !.keys = @ + 1,
                                    !.late = @ \/ picker.quit,
                                    !.first = IF isFirst THEN msg ELSE @,
                                    !.before = IF isFirst THEN picker.m ELSE @]
  /\ UNCHANGED <<orchVars, hashVars, edit, settings, native, race, builddir, form>>

\* the quit message ends the program and RunTargetSelection returns
SelectionReturned ==
  /\ picker.used /\ picker.at = "ui" /\ picker.quit
  /\ \E failed \in BOOLEAN :
       LET got == RunTargetSelection(picker.m, failed)
       IN  picker' = [picker EXCEPT !.at = "returned", !.panic = got.panic,
                                    !.err = IF got.err THEN "TUI error" ELSE ""]
  /\ UNCHANGED <<orchVars, hashVars, edit, settings, native, race, builddir, form>>

\* runListRemoveTargets from the return of the UI: nothing selected returns,
\* else the targets of the names selected are filtered out and the document saved
ListRemoveReturned ==
  /\ picker.used /\ picker.at = "ui" /\ picker.quit
  /\ \E failed \in BOOLEAN, saveFails \in BOOLEAN :
       LET got == RunTargetSelection(picker.m, failed)
           ciConfig == LoadCI(picker.file).config
           newTargets == FilterTargets(ciConfig.targets, got.names)
           result == IF got.err THEN Edited(picker.file, 0, "TUI error")
                     ELSE IF got.names = {} THEN Edited(picker.file, 0, "")
                     ELSE SaveAndReturn(picker.file,
                                        [ciConfig EXCEPT !.targets = newTargets], saveFails)
       IN  picker' = [picker EXCEPT !.at = "returned", !.panic = got.panic,
                                    !.file = result.file, !.saves = result.saves,
                                    !.err = result.err]
  /\ UNCHANGED <<orchVars, hashVars, edit, settings, native, race, builddir, form>>

\* --------------------------------------------------------- add-target wizard
\* The wizard (CITargetModel) key by key. The steps with a text input are Name
\* and DockerImage, the others show a list. The terminal program hands every
\* key press to Update and ends on the message of a tea.Quit, as above.

\* most key presses in one session of the wizard
MaxFormKeys == 7
\* most characters in the text input (CharLimit is 64, scaled)
MaxText == 2

TextSteps == {"Name", "DockerImage"}
CancelKeys == {"ctrl+c", "esc"}
\* the keys that put a character in a focused text input
TextKeys == {"k", " ", "!"}
FormKeys == CancelKeys \cup {"enter", "up", "down"} \cup TextKeys

\* strings.TrimSpace
RECURSIVE TrimSpace(_)
TrimSpace(s) ==
  IF s = "" THEN s
  ELSE IF SubSeq(s, 1, 1) = " " THEN TrimSpace(SubSeq(s, 2, Len(s)))
  ELSE IF SubSeq(s, Len(s), Len(s)) = " " THEN TrimSpace(SubSeq(s, 1, Len(s) - 1))
  ELSE s

\* NewCITargetModel(); the cursor counts from 0 as in the code
NewCITargetModel ==
  [step |-> "Name", text |-> "", cursor |-> 0, quitting |-> FALSE, cancelled |-> FALSE,
   errorMsg |-> "", name |-> "", runner |-> "docker", dockerMode |-> "pull",
   image |-> "", platform |-> "", buildType |-> "Release"]

\* getMaxCursor()
getMaxCursor(m) ==
  CASE m.step = "Runner" -> Len(runnerOptions) - 1
    [] m.step = "DockerMode" -> Len(dockerModeOptions) - 1
    [] m.step = "Platform" -> Len(platformOptions) - 1
    [] m.step = "BuildType" -> Len(buildTypeOptions) - 1
    [] OTHER -> 0

\* an enter at CIStepName that takes any name
EnterName_Unchecked(m) ==
  [m EXCEPT !.name = TrimSpace(m.text), !.errorMsg = "", !.step = "Runner", !.cursor = 0]

\* handleEnter at CIStepName
EnterName(m) ==
  LET name == TrimSpace(m.text)
  IN  IF name = "" THEN [m EXCEPT !.errorMsg = "Target name cannot be empty"]
      ELSE IF ~isValidProjectName(name)
      THEN [m EXCEPT !.errorMsg = "Target name can only contain letters, numbers, hyphens, and underscores"]
      ELSE [m EXCEPT !.name = name, !.errorMsg = "", !.step = "Runner", !.cursor = 0]

\* handleEnter()
handleEnter(m) ==
  CASE m.step = "Name" -> Handled(EnterName(m), FALSE)
    [] m.step = "Runner" ->
         LET runner == runnerOptions[m.cursor + 1]
         IN  Handled([m EXCEPT !.runner = runner,
                               !.step = IF runner = "docker" THEN "DockerMode" ELSE "BuildType",
                               !.cursor = 0], FALSE)
    [] m.step = "DockerMode" ->
         Handled([m EXCEPT !.dockerMode = dockerModeOptions[m.cursor + 1],
                           !.step = "DockerImage", !.text = ""], FALSE)
    [] m.step = "DockerImage" ->
         LET typed == TrimSpace(m.text)
             image == IF typed # "" THEN typed
                      ELSE IF m.dockerMode = "pull" THEN "ubuntu:22.04"
                      ELSE "cpx-" \o m.name
         IN  Handled([m EXCEPT !.image = image, !.step = "Platform", !.cursor = 0], FALSE)
    [] m.step = "Platform" ->
         Handled([m EXCEPT !.platform = IF m.cursor = Len(platformOptions) - 1 THEN ""
                                        ELSE platformOptions[m.cursor + 1],
                           !.step = "BuildType", !.cursor = 0], FALSE)
    [] m.step = "BuildType" ->
         Handled([m EXCEPT !.buildType = buildTypeOptions[m.cursor + 1], !.step = "Done"],
                 TRUE)
    [] OTHER -> Handled(m, FALSE)

\* textInput.Update(msg) at the steps with a text input: a character is put in
\* while there is room
TextInputUpdate(m, msg) ==
  IF m.step \in TextSteps /\ msg \in TextKeys /\ Len(m.text) < MaxText
  THEN [m EXCEPT !.text = @ \o msg]
  ELSE m

\* CITargetModel.Update(msg) for a key press
CITargetModel_Update(m, msg) ==
  CASE msg \in CancelKeys -> Handled([m EXCEPT !.quitting = TRUE, !.cancelled = TRUE], TRUE)
    [] msg = "enter" -> handleEnter(m)
    [] msg \in {"up", "k"} ->
         Handled(TextInputUpdate(IF m.step \notin TextSteps /\ m.cursor > 0
                                 THEN [m EXCEPT !.cursor = @ - 1] ELSE m, msg), FALSE)
    [] msg \in {"down", "j"} ->
         Handled(TextInputUpdate(IF m.step \notin TextSteps /\ m.cursor < getMaxCursor(m)
                                 THEN [m EXCEPT !.cursor = @ + 1] ELSE m, msg), FALSE)
    [] OTHER -> Handled(TextInputUpdate(m, msg), FALSE)

\* CITargetModel.GetConfig()
ConfigOfForm(m) ==
  [Name |-> m.name, Runner |-> m.runner, DockerMode |-> m.dockerMode,
   Image |-> m.image, Platform |-> m.platform, BuildType |-> m.buildType]

\* RunAddTargetTUI once p.Run() has returned the final model: an error, no
\* target when the user cancelled, or the CITargetConfig of GetConfig()
FormResult(m, failed) ==
  [kind |-> IF failed THEN "error" ELSE IF m.cancelled THEN "none" ELSE "target",
   config |-> ConfigOfForm(m)]

\* the session of the wizard: the position ("ui", "returned"), the model,
\* whether a tea.Quit is on its way, the keys handled, the last of them,
\* whether one of them was ctrl+c or esc, and what RunAddTargetTUI returned
FormSession ==
  [used |-> TRUE, at |-> "ui", m |-> NewCITargetModel, quit |-> FALSE, keys |-> 0,
   key |-> "", cancelKey |-> FALSE, result |-> FormResult(NewCITargetModel, TRUE)]

\* the event loop hands one key press to Update
FormKey ==
  /\ form.used /\ form.at = "ui" /\ form.keys < MaxFormKeys
  /\ \E msg \in FormKeys :
       LET out == CITargetModel_Update(form.m, msg)
       IN  form' = [form EXCEPT !.m = out.m,
                                !.quit = @ \/ out.quit,
                                !.keys = @ + 1,
                                !.key = msg,
                                !.cancelKey = @ \/ msg \in CancelKeys]
  /\ UNCHANGED <<orchVars, hashVars, edit, settings, native, race, builddir, picker>>

\* the quit message ends the program and RunAddTargetTUI returns
FormReturned ==
  /\ form.used /\ form.at = "ui" /\ form.quit
  /\ \E failed \in BOOLEAN :
       form' = [form EXCEPT !.at = "returned", !.result = FormResult(form.m, failed)]
  /\ UNCHANGED <<orchVars, hashVars, edit, settings, native, race, builddir, picker>>

\* ------------------------------------------------------------ specifications
NoConfig == [loadable |-> FALSE, targets |-> <<>>, output |-> ""]
ConfigOf(list) == [loadable |-> TRUE, targets |-> list, output |-> ""]

HashParked ==
  /\ hTarget = HashTarget("t1", "label", "", NoArgs)
  /\ hFile = <<>>
  /\ hEdited = FALSE
  /\ hist = <<>>

\* no target-store command has run; the settings harness is unused
NoEdit == [cmd |-> "", args |-> {}, wizard |-> "", saves |-> 0, err |-> "", n |-> 0]
NoSettings == [used |-> FALSE]
NoNative == [used |-> FALSE]
NoRace == [used |-> FALSE]
NoBuildDir == [used |-> FALSE]
NoPicker == [used |-> FALSE]
NoForm == [used |-> FALSE]
UIParked ==
  /\ picker = NoPicker
  /\ form = NoForm
HarnessParked ==
  /\ native = NoNative
  /\ race = NoRace
  /\ builddir = NoBuildDir
  /\ UIParked
EditParked ==
  /\ edit = NoEdit
  /\ settings = NoSettings
  /\ HarnessParked

EmptyDisk ==
  /\ dirs = {}
  /\ configured = {}
  /\ artifacts = {}

ProcessAt(n, at) ==
  /\ run = n
  /\ pc = at
  /\ ciCommandExecuted = FALSE
  /\ calls = 0
  /\ call = NoCall
  /\ targets = <<>>
  /\ idx = 0
  /\ imageName = NoRef
  /\ ret = NoReturn
  /\ log = <<>>
  /\ attempts = <<>>
  /\ resolutions = <<>>

\* The orchestrator: one process, any configuration of up to MaxTargets targets.
Init ==
  /\ cfg \in {NoConfig} \cup {ConfigOf(l) : l \in UNION {TargetLists(n) : n \in 0..MaxTargets}}
  /\ dockerfile = FileOf(<<97>>)
  /\ markers = {}
  /\ images = {}
  /\ EmptyDisk
  /\ ProcessAt(1, "idle")
  /\ HashParked
  /\ EditParked

CallNames == {""} \cup {TargetNames[i] : i \in 1..MaxTargets + 1}

Next ==
  \/ \E n \in CallNames, r \in BOOLEAN, e \in BOOLEAN : RunCIBuild(n, r, e)
  \/ ResolveImage
  \/ RunBuild

Spec == Init /\ [][Next]_vars

\* The environment resolver: one docker target of any descriptor, built by
\* successive processes, the Dockerfile edited in between.
InitResolve ==
  /\ cfg \in {ConfigOf(<<TargetOf("t1", "docker", TRUE, d)>>) : d \in ResolverDockers}
  /\ dockerfile \in FileStates
  /\ markers = {}
  /\ images \in SUBSET {ConfiguredImage("img")}
  /\ EmptyDisk
  /\ ProcessAt(0, "none")
  /\ HashParked
  /\ EditParked

NextResolve ==
  \/ StartProcess
  \/ ExitProcess
  \/ EditDockerfile
  \/ \E r \in BOOLEAN : RunCIBuild("", r, FALSE)
  \/ ResolveImage
  \/ RunBuild

SpecResolve == InitResolve /\ [][NextResolve]_vars

\* The build mode across runs: one build-mode target, built by successive
\* processes, its platform, its image label or the Dockerfile edited in between.
InitRetarget ==
  /\ cfg \in {ConfigOf(<<TargetOf("t1", "docker", TRUE, DockerOf("build", l, pf, "", BuildOf(a)))>>) :
               l \in Labels, pf \in Platforms, a \in {TwoArgs}}
  /\ dockerfile = FileOf(<<97>>)
  /\ markers = {}
  /\ images = {}
  /\ EmptyDisk
  /\ ProcessAt(0, "none")
  /\ HashParked
  /\ EditParked

NextRetarget ==
  \/ StartProcess
  \/ ExitProcess
  \/ EditDescriptor
  \/ EditDockerfile
  \/ RunCIBuild("", FALSE, FALSE)
  \/ ResolveImage
  \/ RunBuild

SpecRetarget == InitRetarget /\ [][NextRetarget]_vars

\* The build strategies: one target of any runner, with or without a container
\* descriptor, in a project with any marker files, built by successive processes.
Runners == {"native", "docker", "", "ssh"}
MarkerFiles == {"MODULE.bazel", "meson.build", "CMakeLists.txt"}
BuildTargets ==
  {TargetOf("t1", r, TRUE, d) :
     r \in Runners, d \in {NoDocker, DockerOf("local", "img", "", "", NoBuild)}}

InitBuild ==
  /\ cfg \in {NoConfig}
             \cup {[ConfigOf(<<t>>) EXCEPT !.output = o] : t \in BuildTargets, o \in OutputRoots}
  /\ dockerfile = MissingFile
  /\ markers \in SUBSET MarkerFiles
  /\ images = {ConfiguredImage("img")}
  /\ EmptyDisk
  /\ ProcessAt(0, "none")
  /\ HashParked
  /\ EditParked

NextBuild ==
  \/ StartProcess
  \/ ExitProcess
  \/ \E n \in {"", "t1", "t9"}, e \in BOOLEAN : RunCIBuild(n, FALSE, e)
  \/ ResolveImage
  \/ RunBuild

SpecBuild == InitBuild /\ [][NextBuild]_vars

\* The target store: a configuration file that does not load, or one with up to
\* three targets of distinct names, edited by add-target and rm-target commands.
StoredTargets ==
  <<TargetOf("t1", "native", TRUE, NoDocker),
    TargetOf("t2", "docker", TRUE, DockerOf("pull", "img", "", "", NoBuild)),
    TargetOf("t3", "docker", TRUE, DockerOf("build", "label", "", "", BuildOf(NoArgs)))>>

InitTargets ==
  /\ cfg \in {NoConfig} \cup {ConfigOf(SubSeq(StoredTargets, 1, n)) : n \in 0..Len(StoredTargets)}
  /\ dockerfile = MissingFile
  /\ markers = {}
  /\ images = {}
  /\ EmptyDisk
  /\ ProcessAt(0, "none")
  /\ HashParked
  /\ EditParked

NextTargets ==
  \/ AddTarget
  \/ RemoveTarget

SpecTargets == InitTargets /\ [][NextTargets]_vars

\* The build settings harness: a target and global defaults with any of the
\* settings explored, from which one build derives its arguments.
InitSettings ==
  /\ cfg = NoConfig
  /\ dockerfile = MissingFile
  /\ markers = {}
  /\ images = {}
  /\ EmptyDisk
  /\ ProcessAt(0, "none")
  /\ HashParked
  /\ edit = NoEdit
  /\ HarnessParked
  /\ settings \in {[used |-> FALSE, strategy |-> "", target |-> t, build |-> b,
                      args |-> [configure |-> <<>>, build |-> <<>>]] :
                     t \in SettingsTargets, b \in SettingsDefaults}

NextSettings == DeriveArguments

SpecSettings == InitSettings /\ [][NextSettings]_vars

\* The native build harness: one native build, with or without build.ninja, of
\* a project whose build leaves any of the listings in the build directory.
InitNative ==
  /\ cfg = NoConfig
  /\ dockerfile = MissingFile
  /\ markers = {}
  /\ images = {}
  /\ EmptyDisk
  /\ ProcessAt(0, "none")
  /\ HashParked
  /\ edit = NoEdit
  /\ settings = NoSettings
  /\ race = NoRace
  /\ builddir = NoBuildDir
  /\ UIParked
  /\ native \in {[used |-> FALSE, configured |-> c, listing |-> l,
                    out |-> Built(<<>>, {}, c, FALSE, "")] :
                   c \in BOOLEAN, l \in Listings}

NextNative == NativeBuild

SpecNative == InitNative /\ [][NextNative]_vars

\* The persistent build directory: one target of a strategy with a guarded
\* configure step, built by successive runs, the settings edited in between.
InitDir ==
  /\ cfg = NoConfig
  /\ dockerfile = MissingFile
  /\ markers = {}
  /\ images = {}
  /\ EmptyDisk
  /\ ProcessAt(0, "none")
  /\ HashParked
  /\ edit = NoEdit
  /\ settings = NoSettings
  /\ native = NoNative
  /\ race = NoRace
  /\ UIParked
  /\ builddir \in
       {[used |-> TRUE, strategy |-> st,
         target |-> [TargetOf("t1", IF st = "native" THEN "native" ELSE "docker", TRUE,
                              DockerOf("local", "img", "", "", NoBuild))
                       EXCEPT !.buildType = bt, !.cmakeOptions = co],
         build |-> BuildDefaults(ty, ca, <<>>, 0),
         ninja |-> FALSE, configuredWith |-> <<>>, runs |-> 0, edited |-> FALSE,
         last |-> [configureRan |-> FALSE, buildArgs |-> <<>>, err |-> ""]] :
          st \in GuardedStrategies, bt \in DirBuildTypes, co \in DirCMakeOptions,
          ty \in DirBuildTypes, ca \in GlobalCMakeArgs}

NextDir ==
  \/ BuildInDir
  \/ EditSettings

SpecDir == InitDir /\ [][NextDir]_vars

\* Concurrent processes: MaxProcs processes of one project, started with or
\* without build.ninja in the build directory of the target.
InitRace ==
  /\ cfg = NoConfig
  /\ dockerfile = MissingFile
  /\ markers = {}
  /\ images = {}
  /\ EmptyDisk
  /\ ProcessAt(0, "none")
  /\ HashParked
  /\ edit = NoEdit
  /\ settings = NoSettings
  /\ native = NoNative
  /\ builddir = NoBuildDir
  /\ UIParked
  /\ race \in {[used |-> TRUE, ninja |-> n,
                  proc |-> [p \in Procs |-> ProcState("idle", FALSE, 0, "")]] : n \in BOOLEAN}

NextRace ==
  \E p \in Procs :
    \/ RaceCall(p)
    \/ RaceStat(p)
    \/ RaceConfigured(p)
    \/ RaceBuilt(p)
    \/ RaceCopied(p)

SpecRace == InitRace /\ [][NextRace]_vars

\* The hashing harness: hashDockerBuildConfig and the tag, evaluated twice with
\* at most one input changed in between.
InitHash ==
  /\ cfg = NoConfig
  /\ dockerfile = MissingFile
  /\ markers = {}
  /\ images = {}
  /\ EmptyDisk
  /\ ProcessAt(0, "none")
  /\ hTarget \in {HashTarget("t1", "label", "", a) : a \in ArgMaps}
  /\ hFile \in StringsUpTo(MaxLen)
  /\ hEdited = FALSE
  /\ hist = <<>>
  /\ EditParked

NextHash ==
  \/ HashBuildConfig
  \/ HashEditDockerfile
  \/ HashEditArg
  \/ HashEditTarget

SpecHash == InitHash /\ [][NextHash]_vars

\* Two build configurations: hashDockerBuildConfig evaluated on one Dockerfile
\* and mapping, then on any other.
InitPair ==
  /\ cfg = NoConfig
  /\ dockerfile = MissingFile
  /\ markers = {}
  /\ images = {}
  /\ EmptyDisk
  /\ ProcessAt(0, "none")
  /\ hTarget \in {HashTarget("t1", "label", "", a) : a \in OtherArgMaps}
  /\ hFile \in StringsUpTo(MaxContent)
  /\ hEdited = FALSE
  /\ hist = <<>>
  /\ EditParked

NextPair ==
  \/ HashBuildConfig
  \/ HashOtherConfig

SpecPair == InitPair /\ [][NextPair]_vars

\* rm-target list: cpx-ci.yaml is missing or holds up to MaxShown targets,
\* the UI is opened, keys are pressed, the command returns.
ShownFile(n) ==
  ConfigOf([i \in 1..n |-> TargetOf(ShownList(n)[i], "native", TRUE, NoDocker)])

InitListRemove ==
  /\ cfg = NoConfig
  /\ dockerfile = MissingFile
  /\ markers = {}
  /\ images = {}
  /\ EmptyDisk
  /\ ProcessAt(0, "none")
  /\ HashParked
  /\ edit = NoEdit
  /\ settings = NoSettings
  /\ native = NoNative
  /\ race = NoRace
  /\ builddir = NoBuildDir
  /\ form = NoForm
  /\ picker \in {Session(f, "start", NewTargetModel(<<>>)) :
                   f \in {NoConfig} \cup {ShownFile(n) : n \in 0..MaxShown}}

NextListRemove ==
  \/ ListRemoveOpen
  \/ PressKey
  \/ ListRemoveReturned

SpecListRemove == InitListRemove /\ [][NextListRemove]_vars

\* The target-selection UI on its own: RunTargetSelection over a list of up to
\* MaxShown targets, the empty one included.
InitSelect ==
  /\ cfg = NoConfig
  /\ dockerfile = MissingFile
  /\ markers = {}
  /\ images = {}
  /\ EmptyDisk
  /\ ProcessAt(0, "none")
  /\ HashParked
  /\ edit = NoEdit
  /\ settings = NoSettings
  /\ native = NoNative
  /\ race = NoRace
  /\ builddir = NoBuildDir
  /\ form = NoForm
  /\ picker \in {Session(ShownFile(n), "ui", NewTargetModel(ShownList(n))) :
                   n \in 0..MaxShown}

NextSelect ==
  \/ PressKey
  \/ SelectionReturned

SpecSelect == InitSelect /\ [][NextSelect]_vars

\* The wizard on its own: one run of RunAddTargetTUI, key by key.
InitForm ==
  /\ cfg = NoConfig
  /\ dockerfile = MissingFile
  /\ markers = {}
  /\ images = {}
  /\ EmptyDisk
  /\ ProcessAt(0, "none")
  /\ HashParked
  /\ edit = NoEdit
  /\ settings = NoSettings
  /\ native = NoNative
  /\ race = NoRace
  /\ builddir = NoBuildDir
  /\ picker = NoPicker
  /\ form = FormSession

NextForm ==
  \/ FormKey
  \/ FormReturned

SpecForm == InitForm /\ [][NextForm]_vars

\* ------------------------------------------------------------------ properties
ArgsOf(h) == h.target.docker.build.args

\* the evaluations i and j hashed the same Dockerfile content and the same args
SameBuildConfig(i, j) ==
  /\ hist[i].content = hist[j].content
  /\ ArgsOf(hist[i]) = ArgsOf(hist[j])

\* C2: two evaluations of hashDockerBuildConfig on the same Dockerfile content
\* and the same build-arg mapping return the same hash also when the map's keys
\* were enumerated in different orders.
C2_HashIgnoresKeyOrder ==
  \A i, j \in DOMAIN hist :
    SameBuildConfig(i, j) /\ hist[i].order # hist[j].order => hist[i].hash = hist[j].hash

\* C2 witness: a mapping of two keys was hashed twice, enumerated in both orders
C2_Witness ==
  /\ Len(hist) = 2
  /\ SameBuildConfig(1, 2)
  /\ Len(hist[1].order) = 2
  /\ hist[1].order # hist[2].order
  /\ hist[1].hash = hist[2].hash

\* the args of evaluations i and j have the same keys and differ in the value of
\* exactly one of them
OneValueChanged(i, j) ==
  /\ DOMAIN ArgsOf(hist[i]) = DOMAIN ArgsOf(hist[j])
  /\ Cardinality({k \in DOMAIN ArgsOf(hist[i]) : ArgsOf(hist[i])[k] # ArgsOf(hist[j])[k]}) = 1

\* C3: the hash is deterministic (same content and same args give the same hash on
\* every evaluation) and sensitive (another content with the same args, or the
\* same content with one arg value changed, gives another hash).
C3_HashDeterministicAndSensitive ==
  \A i, j \in DOMAIN hist :
    /\ SameBuildConfig(i, j) => hist[i].hash = hist[j].hash
    /\ hist[i].content # hist[j].content /\ ArgsOf(hist[i]) = ArgsOf(hist[j])
         => hist[i].hash # hist[j].hash
    /\ hist[i].content = hist[j].content /\ OneValueChanged(i, j)
         => hist[i].hash # hist[j].hash

\* C3 witness: one arg value was changed between two evaluations, and the hash changed
C3_Witness ==
  /\ Len(hist) = 2
  /\ hist[1].content = hist[2].content
  /\ OneValueChanged(1, 2)
  /\ hist[1].hash # hist[2].hash

\* C5 as stated: the image reference of a build-mode target depends on the
\* Dockerfile content and the build args only.
C5_TagOfContentAndArgsOnly ==
  \A i, j \in DOMAIN hist : SameBuildConfig(i, j) => hist[i].tag = hist[j].tag

\* C5 amended: the image reference of a build-mode target depends on the target
\* name, the Dockerfile content and the build args only: with all three equal the
\* references are equal whatever the platform and the image label, and targets
\* of different names never get the same reference.
C5_TagOfNameContentAndArgs ==
  \A i, j \in DOMAIN hist :
    /\ SameBuildConfig(i, j) /\ hist[i].target.name = hist[j].target.name
         => hist[i].tag = hist[j].tag
    /\ hist[i].target.name # hist[j].target.name => hist[i].tag # hist[j].tag

\* C5 witness: the same name, content and args under two image labels, one reference
C5_Witness ==
  /\ Len(hist) = 2
  /\ SameBuildConfig(1, 2)
  /\ hist[1].target.name = hist[2].target.name
  /\ hist[1].target.docker.image # hist[2].target.docker.image
  /\ hist[1].tag = hist[2].tag

\* ---- properties of the environment resolver
\* the number of events of a resolution that ran one of the commands `ops`
Ran(events, ops) == Cardinality({k \in DOMAIN events : events[k].op \in ops})

ImageBuilders == {"docker buildx build", "docker build"}

\* resolution r is of a build-mode target with a build sub-descriptor and a
\* Dockerfile that could be read
BuildModeHashed(r) ==
  /\ r.target.docker.present
  /\ r.target.docker.mode = "build"
  /\ r.target.docker.build.present
  /\ r.file.exists
  /\ r.file.readable

\* the tags cpx/<target-name>:<hash> of the Dockerfile and args resolution r saw
TagsOf(r) ==
  {BuildTag(r.target, hashDockerBuildConfig(r.file, r.target.docker.build.args, order).hash) :
     order \in RangeOrders(r.target.docker.build.args)}

\* resolution r found the image of its tag in the local store
CacheHit(r) ==
  /\ BuildModeHashed(r)
  /\ ~r.rebuild
  /\ TagsOf(r) \cap r.before # {}

\* C1: a build-mode resolution with rebuild=false that finds an image with the
\* computed tag in the local store returns that tag without error, invokes
\* neither builder and leaves the store as it was.
C1_CacheHitBuildsNothing ==
  \A i \in DOMAIN resolutions :
    LET r == resolutions[i]
    IN  CacheHit(r) =>
          /\ r.err = ""
          /\ r.ref \in TagsOf(r)
          /\ Ran(r.events, ImageBuilders) = 0
          /\ r.images = r.before

\* C1 witness: a run built the image, and the next run, the Dockerfile unchanged,
\* resolved to the same tag from the store
C1_Witness ==
  /\ Len(resolutions) = 2
  /\ resolutions[1].run = 1
  /\ resolutions[2].run = 2
  /\ Ran(resolutions[1].events, ImageBuilders) > 0
  /\ resolutions[1].file = resolutions[2].file
  /\ CacheHit(resolutions[2])
  /\ resolutions[2].ref = resolutions[1].ref

\* the tag a rebuild=false resolution computed and looked for in the store
QueriedTag(r) == r.events[1].ref

\* the resolutions i and j are those of two successive rebuild=false runs of a
\* build-mode target on Dockerfiles of different content, neither image cached
\* before the first
TwoDockerfiles(i, j) ==
  LET a == resolutions[i]
      b == resolutions[j]
  IN  /\ b.run = a.run + 1
      /\ BuildModeHashed(a)
      /\ BuildModeHashed(b)
      /\ ~a.rebuild
      /\ ~b.rebuild
      /\ a.file.content # b.file.content
      /\ (TagsOf(a) \cup TagsOf(b)) \cap a.before = {}

NeverAndAbsent(r) ==
  /\ r.target.docker.present
  /\ r.target.docker.mode = "pull"
  /\ r.target.docker.pullPolicy = "never"
  /\ ConfiguredImage(r.target.docker.image) \notin r.before

\* C10: in pull mode with pullPolicy=never and the image absent from the local
\* store, the resolution returns an error and runs no docker pull, with and
\* without rebuild.
C10_NeverAbsentFailsWithoutPull ==
  \A i \in DOMAIN resolutions :
    LET r == resolutions[i]
    IN  NeverAndAbsent(r) =>
          /\ r.err # ""
          /\ Ran(r.events, {"docker pull"}) = 0
          /\ r.images = r.before

\* C10 witness: such a resolution was made with rebuild=true and the call returned its error
C10_Witness ==
  /\ Len(resolutions) > 0
  /\ NeverAndAbsent(resolutions[1])
  /\ resolutions[1].rebuild
  /\ ret.done
  /\ ret.err = "failed to resolve Docker image"

\* ---- properties of the orchestrator
\* the place of the target named `name` in a list of targets
PlaceIn(list, name) == CHOOSE i \in DOMAIN list : list[i].name = name

\* the events of the loop: the progress lines and commands of one target
LoopEvent(e) == e.target # "" /\ e.op # "Warning: target is marked as inactive"

\* the loop takes the selected targets one at a time, in configuration order:
\* everything logged for a target comes after everything logged for the targets
\* before it, and the loop finishes with the targets in that order
OneAtATime ==
  /\ \A i, j \in DOMAIN targets :
       i < j => PlaceIn(cfg.targets, targets[i].name) < PlaceIn(cfg.targets, targets[j].name)
  /\ \A p, q \in DOMAIN log :
       p < q /\ LoopEvent(log[p]) /\ LoopEvent(log[q])
         => PlaceIn(targets, log[p].target) <= PlaceIn(targets, log[q].target)
  /\ Len(attempts) <= Len(targets)
  /\ \A k \in DOMAIN attempts : attempts[k].target = targets[k].name

\* a failed target is the last one the loop touched: the first call returned the
\* error of that target, naming it, nothing was logged for a later target, and
\* the output directories of the targets before it are there
FirstFailureAborts ==
  \A k \in DOMAIN attempts :
    attempts[k].err # "" =>
      /\ k = Len(attempts)
      /\ pc = "idle"
      /\ calls = 1 =>
           /\ ret.done
           /\ ret.err # ""
           /\ ret.target = attempts[k].target
           /\ ret.cause = attempts[k].err
      /\ \A e \in {log[p] : p \in DOMAIN log} :
           LoopEvent(e) => PlaceIn(targets, e.target) <= k
      /\ \A i \in 1..(k - 1) :
           /\ attempts[i].err = ""
           /\ TargetOutputDir(OutputDir(cfg), targets[i]) \in dirs

\* nothing on disk is removed by a step
KeepsOutputs ==
  /\ dirs \subseteq dirs'
  /\ artifacts \subseteq artifacts'
  /\ configured \subseteq configured'

FirstCallReturned == calls = 1 /\ pc = "idle" /\ ret.done

\* the call named no target, or a target of the configuration
ValidSelection ==
  \/ call.targetName = ""
  \/ \E i \in DOMAIN cfg.targets : cfg.targets[i].name = call.targetName

TargetFailed == \E k \in DOMAIN attempts : attempts[k].err # ""

\* a build-all call on a configuration without active targets
NoneSelected ==
  /\ call.targetName = ""
  /\ \A i \in DOMAIN cfg.targets : ~IsActive(cfg.targets[i])

SelectedCount ==
  IF call.targetName = ""
  THEN Cardinality({i \in DOMAIN cfg.targets : IsActive(cfg.targets[i])})
  ELSE 1

SetupErrors ==
  {"failed to create output directory", "failed to get project root",
   "failed to create cache directory", "failed to create target cache directory"}

\* C7 as stated: the first run on a loadable configuration with a valid selection
\* returns an error if and only if an attempted target failed (runs whose
\* directories could not be set up are left aside).
C7_ErrorIffTargetFailed ==
  FirstCallReturned /\ cfg.loadable /\ ValidSelection /\ ret.err \notin SetupErrors
    => (ret.err # "" <=> TargetFailed)

\* C7 amended: the first run on a loadable configuration with a valid selection
\* returns an error if and only if an attempted target failed, or no target was
\* left to attempt, or the directories could not be set up before the loop;
\* it returns success exactly when every selected target was attempted and
\* succeeded, and there was at least one.
C7_ErrorIffFailedOrNothingToBuild ==
  FirstCallReturned /\ cfg.loadable /\ ValidSelection =>
    /\ TargetFailed => ret.err # ""
    /\ NoneSelected => ret.err = "no active targets defined in cpx-ci.yaml"
    /\ ret.err # "" /\ ~TargetFailed /\ ~NoneSelected =>
         attempts = <<>> /\ ret.err \in SetupErrors
    /\ ret.err = "" =>
         /\ SelectedCount > 0
         /\ Len(attempts) = SelectedCount
         /\ \A k \in DOMAIN attempts : attempts[k].err = ""

\* C7 witness: a loadable configuration whose targets are all inactive, built
\* without a target name: an error, and no target was attempted
C7_Witness ==
  /\ FirstCallReturned
  /\ cfg.loadable
  /\ Len(cfg.targets) > 0
  /\ NoneSelected
  /\ attempts = <<>>
  /\ ret.err = "no active targets defined in cpx-ci.yaml"

\* a step that is a call of runCIBuild after the first of the process
LaterCall == calls >= 1 /\ calls' = calls + 1

\* C8: only the first call of runCIBuild in a process runs the pipeline: a later
\* call loads nothing, selects nothing, creates no directory, resolves and
\* builds nothing, and leaves the disk and the image store as they are.
C8_OnlyFirstCallRunsPipeline ==
  /\ [][LaterCall =>
          /\ pc' = "idle"
          /\ log' = Append(log, Printed("CI command already executed, skipping", "", 0))
          /\ UNCHANGED <<envVars, images, diskVars, targets, idx, attempts, resolutions>>]_vars
  /\ [](pc \in {"resolve", "build"} => calls = 1)

\* C8 witness: a second call was made after a first one that built a target
C8_Witness ==
  /\ calls = 2
  /\ Len(attempts) > 0
  /\ artifacts # {}
  /\ log[Len(log)].op = "CI command already executed, skipping"

InactiveCount == Cardinality({i \in DOMAIN cfg.targets : ~IsActive(cfg.targets[i])})

SkipLines == {p \in DOMAIN log : log[p].op = "Skipping inactive target(s)"}
WarningLines == {p \in DOMAIN log : log[p].op = "Warning: target is marked as inactive"}

\* the attempts made are the first targets of the selection, and all of them
\* once the call has returned success
AttemptsFollow(selected) ==
  /\ Len(attempts) <= Len(selected)
  /\ \A k \in DOMAIN attempts : attempts[k].target = selected[k].name
  /\ ret.done /\ ret.err = "" /\ calls = 1 => Len(attempts) = Len(selected)

\* C9: a call with a target name selects that target, active or not (an inactive
\* one with a warning), and builds it; a call without a name selects exactly the
\* active targets in configuration order and prints a skipped count equal to the
\* number of inactive targets.
C9_SelectionByNameOrActive ==
  calls >= 1 /\ cfg.loadable /\ ValidSelection =>
    IF call.targetName # ""
    THEN LET t == cfg.targets[PlaceIn(cfg.targets, call.targetName)]
         IN  /\ (WarningLines # {}) <=> ~IsActive(t)
             /\ SkipLines = {}
             /\ targets \in {<<>>, <<t>>}
             /\ AttemptsFollow(<<t>>)
    ELSE /\ WarningLines = {}
         /\ (SkipLines # {}) <=> InactiveCount > 0
         /\ \A p \in SkipLines : log[p].n = InactiveCount
         /\ targets # <<>> =>
              /\ \A i \in DOMAIN targets : IsActive(targets[i])
              /\ \A i \in DOMAIN cfg.targets :
                   IsActive(cfg.targets[i]) => \E k \in DOMAIN targets : targets[k] = cfg.targets[i]
              /\ \A i, j \in DOMAIN targets :
                   i < j => PlaceIn(cfg.targets, targets[i].name)
                              < PlaceIn(cfg.targets, targets[j].name)
         /\ AttemptsFollow(targets)

\* C9 witness: an inactive target, named in the call, was built, with the warning
C9_Witness ==
  /\ FirstCallReturned
  /\ call.targetName # ""
  /\ Len(attempts) = 1
  /\ ~IsActive(targets[1])
  /\ attempts[1].err = ""
  /\ ret.err = ""
  /\ WarningLines # {}

\* ---- properties of the pull and local modes
\* resolution r is of a pull-mode target with pull policy `policy`
PullModeWith(r, policy) ==
  /\ r.target.docker.present
  /\ r.target.docker.mode = "pull"
  /\ r.target.docker.pullPolicy = policy

\* the image the descriptor of r configures is in the store r started from
ConfiguredPresent(r) == ConfiguredImage(r.target.docker.image) \in r.before

\* r ran docker pull exactly once, for the configured image, after the image query
PulledOnce(r) ==
  /\ Ran(r.events, {"docker pull"}) = 1
  /\ Len(r.events) = 2
  /\ r.events[1].op = "docker images"
  /\ r.events[2].op = "docker pull"
  /\ r.events[2].ref = ConfiguredImage(r.target.docker.image)

\* a successful resolution returns the configured image string
ReturnsConfigured(r) == r.err = "" => r.ref = ConfiguredImage(r.target.docker.image)

\* C11: in pull mode with pullPolicy=always every resolution runs docker pull,
\* also when the image is in the local store and rebuild is false.
C11_AlwaysPulls ==
  \A i \in DOMAIN resolutions :
    LET r == resolutions[i]
    IN  PullModeWith(r, "always") => PulledOnce(r) /\ ReturnsConfigured(r)

\* C11 witness: a resolution with pullPolicy=always and rebuild=false pulled an
\* image that was already in the store
C11_Witness ==
  \E i \in DOMAIN resolutions :
    LET r == resolutions[i]
    IN  /\ PullModeWith(r, "always")
        /\ ~r.rebuild
        /\ ConfiguredPresent(r)
        /\ PulledOnce(r)
        /\ r.err = ""

\* C12: in pull mode with pullPolicy=ifNotPresent or unset and rebuild=false,
\* docker pull is run if and only if the image is absent from the local store,
\* and a successful resolution returns the configured image string.
C12_IfNotPresentPullsIffAbsent ==
  \A i \in DOMAIN resolutions :
    LET r == resolutions[i]
    IN  (PullModeWith(r, "ifNotPresent") \/ PullModeWith(r, "")) /\ ~r.rebuild =>
          /\ ConfiguredPresent(r) =>
               /\ Ran(r.events, {"docker pull"}) = 0
               /\ r.err = ""
               /\ r.images = r.before
          /\ ~ConfiguredPresent(r) => PulledOnce(r)
          /\ ReturnsConfigured(r)

\* C12 witness: with no pullPolicy set, the first run pulled the absent image and
\* the second run used it from the store without a pull
C12_Witness ==
  /\ Len(resolutions) = 2
  /\ PullModeWith(resolutions[1], "")
  /\ ~resolutions[1].rebuild
  /\ ~resolutions[2].rebuild
  /\ ~ConfiguredPresent(resolutions[1])
  /\ PulledOnce(resolutions[1])
  /\ ConfiguredPresent(resolutions[2])
  /\ Ran(resolutions[2].events, {"docker pull"}) = 0
  /\ resolutions[2].ref = ConfiguredImage("img")

KnownPolicies == {"always", "never", "ifNotPresent", ""}

\* r is a pull-mode resolution with rebuild=true and one of the four policies
RebuildPull(r) ==
  /\ r.rebuild
  /\ \E p \in KnownPolicies : PullModeWith(r, p)

\* C13 as stated: in pull mode with rebuild=true every resolution runs docker
\* pull, for each of the four pull policies, the image present or not.
C13_RebuildAlwaysPulls ==
  \A i \in DOMAIN resolutions :
    LET r == resolutions[i]
    IN  RebuildPull(r) => PulledOnce(r)

\* C13 amended: in pull mode with rebuild=true a resolution runs docker pull for
\* each of the four pull policies, the image present or not, except for
\* pullPolicy=never with the image absent, where it fails without a pull.
C13_RebuildPullsUnlessNeverAbsent ==
  \A i \in DOMAIN resolutions :
    LET r == resolutions[i]
    IN  RebuildPull(r) =>
          IF NeverAndAbsent(r)
          THEN r.err # "" /\ Ran(r.events, {"docker pull"}) = 0
          ELSE PulledOnce(r) /\ ReturnsConfigured(r)

\* C13 witness: with pullPolicy=never, rebuild=true and the image in the store,
\* the resolution pulled the image
C13_Witness ==
  \E i \in DOMAIN resolutions :
    LET r == resolutions[i]
    IN  /\ PullModeWith(r, "never")
        /\ r.rebuild
        /\ ConfiguredPresent(r)
        /\ PulledOnce(r)
        /\ r.err = ""

\* resolution r is of a local-mode target
LocalMode(r) == r.target.docker.present /\ r.target.docker.mode = "local"

\* C14: in local mode a resolution runs the image query and nothing else, with
\* and without rebuild: no docker pull and no image build; it returns the
\* configured image when the image is in the local store and otherwise an error
\* that names the image.
C14_LocalNeverPullsOrBuilds ==
  \A i \in DOMAIN resolutions :
    LET r == resolutions[i]
        image == ConfiguredImage(r.target.docker.image)
    IN  LocalMode(r) =>
          /\ Ran(r.events, {"docker pull"} \cup ImageBuilders) = 0
          /\ r.events = ImageQuery(r.target, image)
          /\ r.images = r.before
          /\ image \in r.before => r.err = "" /\ r.ref = image
          /\ image \notin r.before =>
               /\ r.ref = NoRef
               /\ r.err = "local image " \o r.target.docker.image \o " not found"

\* C14 witness: a local-mode resolution with rebuild=true did not find the image
\* and the call returned the error naming it
C14_Witness ==
  /\ Len(resolutions) > 0
  /\ LocalMode(resolutions[1])
  /\ resolutions[1].rebuild
  /\ resolutions[1].before = {}
  /\ ret.done
  /\ ret.cause = "local image img not found"

\* ---- properties of the build mode
\* commands of the container engine, and the steps of a build
EngineOps ==
  {"docker images", "docker pull", "docker buildx build", "docker build", "docker run"}
BuildOps ==
  {"cmake configure", "cmake build", "meson setup", "meson compile", "bazel build",
   "copy artifacts", "execute"}

\* resolution r is of a build-mode target without a build sub-descriptor, or
\* whose Dockerfile is missing or cannot be read
BuildModeUnusable(r) ==
  /\ r.target.docker.present
  /\ r.target.docker.mode = "build"
  /\ \/ ~r.target.docker.build.present
     \/ ~r.file.exists
     \/ ~r.file.readable

\* C15: a build-mode resolution without a build sub-descriptor, or whose
\* Dockerfile is missing or unreadable, returns an error having run no command
\* of the container engine, and the process never runs a build step for that
\* target.
C15_UnusableBuildConfigFailsEarly ==
  \A i \in DOMAIN resolutions :
    LET r == resolutions[i]
    IN  BuildModeUnusable(r) =>
          /\ r.err # ""
          /\ r.ref = NoRef
          /\ r.events = <<>>
          /\ r.images = r.before
          /\ r.run = run =>
               /\ pc # "build"
               /\ \A k \in DOMAIN log :
                    log[k].target = r.target.name => log[k].op \notin EngineOps \cup BuildOps
               /\ \E k \in DOMAIN attempts :
                    attempts[k].target = r.target.name /\ attempts[k].err = r.err

\* C15 witness: the Dockerfile of a build-mode target with a build sub-descriptor
\* exists but cannot be read, and the call returned the error of the resolution
C15_Witness ==
  /\ Len(resolutions) > 0
  /\ LET r == resolutions[Len(resolutions)]
     IN  /\ BuildModeUnusable(r)
         /\ r.target.docker.build.present
         /\ r.file.exists
         /\ r.run = run
         /\ ret.done
         /\ ret.err = "failed to resolve Docker image"
         /\ ret.cause = r.err

\* resolution r has to build: rebuild is set or no image has the computed tag
MustBuild(r) ==
  /\ BuildModeHashed(r)
  /\ r.rebuild \/ TagsOf(r) \cap r.before = {}

\* the builder invocations of a resolution, in order
BuilderRuns(r) == SelectSeq(r.events, LAMBDA e : e.op \in ImageBuilders)

\* C16: a build-mode resolution that has to build invokes docker buildx build
\* first; it invokes docker build if and only if docker buildx build failed; it
\* returns an error if and only if both failed, and the computed tag otherwise.
C16_BuildxThenLegacyFallback ==
  \A i \in DOMAIN resolutions :
    LET r == resolutions[i]
        b == BuilderRuns(r)
    IN  MustBuild(r) =>
          /\ Len(b) \in {1, 2}
          /\ b[1].op = "docker buildx build"
          /\ Len(b) = 2 <=> b[1].n = 1
          /\ Len(b) = 2 => b[2].op = "docker build"
          /\ r.err # "" <=> (Len(b) = 2 /\ b[1].n = 1 /\ b[2].n = 1)
          /\ r.err = "" => r.ref \in TagsOf(r) /\ r.ref \in r.images

\* C16 witness: with rebuild=true and the image already in the store, docker
\* buildx build failed, docker build succeeded and the tag was returned
C16_Witness ==
  \E i \in DOMAIN resolutions :
    LET r == resolutions[i]
        b == BuilderRuns(r)
    IN  /\ MustBuild(r)
        /\ r.rebuild
        /\ TagsOf(r) \cap r.before # {}
        /\ Len(b) = 2
        /\ b[2].n = 0
        /\ r.err = ""

\* ---- properties of the build strategies
\* a step of RunBuild: the loop has finished with one more target
BuildStep == pc = "build" /\ Len(attempts') = Len(attempts) + 1

\* the target that step builds, what the step logged and the error it returned
StepTarget == targets[idx]
StepEvents == SubSeq(log', Len(log) + 1, Len(log'))
StepError == attempts'[Len(attempts')].err
StepRan(ops) == \E k \in DOMAIN StepEvents : StepEvents[k].op \in ops
StepPlace(ops) == CHOOSE k \in DOMAIN StepEvents : StepEvents[k].op \in ops

ConfigureOps == {"cmake configure", "meson setup"}
CompileOps == {"cmake build", "meson compile"}

\* build.ninja is in the build directory of the target when the step starts
WasConfigured == StepTarget.name \in configured

\* a step of a strategy with a guarded configure step: the configure step runs
\* only without build.ninja, and it is the first step of every script that gets
\* to its steps without build.ninja; the build step follows in every script
\* that did not fail before it, and in every successful one; build.ninja is
\* there after a success and is never removed
ConfigureOnlyWithoutNinja ==
  BuildStep /\ StrategyOf(StepTarget, markers) \in {"cmake", "native", "meson"} =>
    /\ StepRan(ConfigureOps) => ~WasConfigured
    /\ StepRan(ConfigureOps \cup CompileOps) => (StepRan(ConfigureOps) <=> ~WasConfigured)
    /\ StepRan(ConfigureOps) /\ StepRan(CompileOps) =>
         StepPlace(ConfigureOps) < StepPlace(CompileOps)
    /\ ~StepRan(CompileOps) => StepError # ""
    /\ StepError = "" =>
         /\ StepRan(CompileOps)
         /\ StepRan(ConfigureOps) <=> ~WasConfigured
         /\ StepTarget.name \in configured'

\* C17: the CMake strategies (container and native) and the Meson strategy run
\* the configure step if and only if build.ninja is absent from the target's
\* build directory when the run starts, and always go on to the build step; a
\* successful run leaves build.ninja behind, so the next successful run of the
\* target does not configure and only rebuilds.
C17_ConfigureIffNoNinja ==
  /\ [][ConfigureOnlyWithoutNinja]_vars
  /\ [][configured \subseteq configured']_vars

\* C17 witness: the second process built the target successfully with the build
\* step and without a configure step, build.ninja being there from the first
C17_Witness ==
  /\ run = 2
  /\ Len(attempts) = 1
  /\ attempts[1].err = ""
  /\ StrategyOf(targets[1], markers) \in {"cmake", "native", "meson"}
  /\ targets[1].name \in configured
  /\ \E k \in DOMAIN log : log[k].op \in CompileOps
  /\ \A k \in DOMAIN log : log[k].op \notin ConfigureOps

Strategies == {"native", "cmake", "meson", "bazel"}

\* the steps by which a strategy is recognised, and the errors only it returns
StepsOf(strategy) ==
  CASE strategy = "bazel" -> {"bazel build"}
    [] strategy = "meson" -> {"meson setup", "meson compile"}
    [] OTHER -> {"cmake configure", "cmake build"}
ErrorsOf(strategy) ==
  CASE strategy = "bazel" -> {"docker bazel build failed"}
    [] strategy = "meson" -> {"docker meson build failed"}
    [] strategy = "cmake" -> {"docker run failed"}
    [] OTHER -> {"cmake failed", "failed to read build directory"}

\* the strategies of which the step shows a trace: a step of the strategy, on the
\* host for the native one and in a container for the others, or its error
Observed ==
  {st \in Strategies :
     \/ StepError \in ErrorsOf(st)
     \/ \E k \in DOMAIN StepEvents :
          /\ StepEvents[k].op \in StepsOf(st)
          /\ (st = "native") <=> (StepEvents[k].ref = NoRef)}

\* the step got past the creation of the target's output directory
OutputDirMade == StepError # "failed to create target output directory"

\* the step ran the strategy `strategy` and no other
RanOnly(strategy) ==
  /\ Observed \subseteq {strategy}
  /\ OutputDirMade => Observed = {strategy}

\* C18: for a target that is not native, the strategy follows the marker files
\* in a fixed order: MODULE.bazel selects Bazel, with or without meson.build;
\* otherwise meson.build selects Meson; otherwise CMake.
C18_MarkerPriority ==
  [][BuildStep /\ StepTarget.runner = "docker" =>
       /\ "MODULE.bazel" \in markers => RanOnly("bazel")
       /\ "MODULE.bazel" \notin markers /\ "meson.build" \in markers => RanOnly("meson")
       /\ "MODULE.bazel" \notin markers /\ "meson.build" \notin markers => RanOnly("cmake")]_vars

\* C18 witness: with MODULE.bazel and meson.build both present, a docker target
\* was built with the Bazel strategy
C18_Witness ==
  /\ {"MODULE.bazel", "meson.build"} \subseteq markers
  /\ Len(attempts) = 1
  /\ targets[1].runner = "docker"
  /\ attempts[1].err = ""
  /\ \E k \in DOMAIN log : log[k].op = "bazel build"
  /\ \A k \in DOMAIN log : log[k].op \notin StepsOf("meson") \cup StepsOf("cmake")

\* the targets of the configuration with runner=native
NativeNames ==
  {cfg.targets[i].name : i \in {j \in DOMAIN cfg.targets : cfg.targets[j].runner = "native"}}

\* C19: a native target is built with the native CMake strategy on the host
\* whatever marker files are present; no image is resolved for it and no
\* command of the container engine is run for it.
C19_NativeAlwaysNativeCMake ==
  /\ [][BuildStep /\ StepTarget.runner = "native" => RanOnly("native")]_vars
  /\ [](/\ \A i \in DOMAIN resolutions : resolutions[i].target.name \notin NativeNames
        /\ \A k \in DOMAIN log :
             log[k].target \in NativeNames =>
               log[k].op \notin EngineOps /\ log[k].ref = NoRef)

\* C19 witness: with MODULE.bazel and meson.build present, a native target with
\* a container descriptor was built by cmake on the host
C19_Witness ==
  /\ {"MODULE.bazel", "meson.build"} \subseteq markers
  /\ Len(attempts) = 1
  /\ targets[1].runner = "native"
  /\ targets[1].docker.present
  /\ attempts[1].err = ""
  /\ resolutions = <<>>
  /\ \E k \in DOMAIN log : log[k].op = "cmake build" /\ log[k].ref = NoRef

\* the errors a build returns: those of creating directories and of running the
\* commands of the strategy
RunErrors(strategy) ==
  {"", "failed to create target output directory"} \cup ErrorsOf(strategy)

RunCommand == call # NoCall /\ call.executeAfterBuild /\ call.targetName # ""

\* the last step of the strategy's build proper
LastBuildOps == {"cmake build", "meson compile", "bazel build"}

\* C21: `ci run --target NAME` builds the named target and then executes its
\* binary: whatever the runner and the build strategy, a step that succeeds has
\* executed the binary, and the execution comes after the build.
C21_RunExecutesAfterBuild ==
  [][BuildStep /\ RunCommand =>
       /\ StepError = "" => StepRan({"execute"})
       /\ StepRan({"execute"}) =>
            /\ StepRan(LastBuildOps)
            /\ StepPlace(LastBuildOps) < StepPlace({"execute"})]_vars

\* what the code does: only the CMake strategy in a container has an execution
\* step, after its build, and only when it finds an executable
C21_OnlyContainerCMakeExecutes ==
  [][BuildStep =>
       (StepRan({"execute"}) =>
          /\ call.executeAfterBuild
          /\ StrategyOf(StepTarget, markers) = "cmake"
          /\ StepRan({"cmake build"})
          /\ StepPlace({"cmake build"}) < StepPlace({"execute"}))]_vars

\* `ci run` of a native target has succeeded without executing anything
C21_Witness ==
  /\ RunCommand /\ attempts # <<>>
  /\ attempts[Len(attempts)].err = ""
  /\ targets[Len(attempts)].runner = "native"
  /\ \A k \in DOMAIN log : log[k].op # "execute"
  /\ \E k \in DOMAIN log : log[k].op = "cmake build"

\* ----------------------------------------------------------- target store
\* a step of rm-target with names, and of add-target
RemoveStep == edit'.n = edit.n + 1 /\ edit'.cmd = "rm-target" /\ edit'.args # {}
AddStep == edit'.n = edit.n + 1 /\ edit'.cmd = "add-target"

\* the names of a list, and whether one of them occurs twice
NamesOf(list) == {list[i].name : i \in DOMAIN list}
\* list without the targets named in names, the others in their order
Without(list, names) ==
  LET kept == {i \in DOMAIN list : list[i].name \notin names}
      Rank(i) == Cardinality({j \in kept : j < i}) + 1
  IN  [r \in 1..Cardinality(kept) |-> list[CHOOSE i \in kept : Rank(i) = r]]

\* C22: rm-target with names leaves the stored list as the original one without
\* exactly the named targets, the others in their order; names that match no
\* target are ignored and cause no error; when no name matches, the list is
\* unchanged and there is no error. (An error comes only from loading or saving
\* the file.)
C22_RemoveExactlyNamed ==
  [][RemoveStep /\ cfg.loadable =>
       /\ edit'.err = "" => /\ cfg'.targets = Without(cfg.targets, edit'.args)
                            /\ cfg'.loadable /\ cfg'.output = cfg.output
       /\ edit'.err # "" => /\ edit'.saves = 1
                            /\ edit'.args \cap NamesOf(cfg.targets) # {}
                            /\ cfg' = cfg
       /\ edit'.args \cap NamesOf(cfg.targets) = {} =>
            cfg' = cfg /\ edit'.err = "" /\ edit'.saves = 0]_vars

\* rm-target t1 tx has turned <<t1, t2, t3>> into <<t2, t3>> without an error
C22_Witness ==
  /\ edit.cmd = "rm-target" /\ edit.args = {"t1", "tx"} /\ edit.n = 1
  /\ edit.err = "" /\ edit.saves = 1
  /\ cfg.targets = SubSeq(StoredTargets, 2, 3)

\* the list add-target starts from: the stored one, or an empty one when the
\* file does not load
ListBefore == IF cfg.loadable THEN cfg.targets ELSE <<>>

\* C23: when the wizard completes, the stored list afterwards is the previous
\* list with exactly one new target appended at the end; when the wizard is
\* cancelled the configuration file is not written. (When saving fails the
\* command returns the error.)
C23_AddAppendsOneOrWritesNothing ==
  [][AddStep =>
       /\ edit'.wizard = "completed" =>
            /\ edit'.saves = 1
            /\ edit'.err = "" =>
                 /\ cfg'.loadable
                 /\ Len(cfg'.targets) = Len(ListBefore) + 1
                 /\ SubSeq(cfg'.targets, 1, Len(ListBefore)) = ListBefore
                 /\ cfg'.targets[Len(cfg'.targets)].runner \in {"docker", "native"}
            /\ edit'.err # "" => cfg' = cfg
       /\ edit'.wizard # "completed" => edit'.saves = 0 /\ cfg' = cfg
       /\ edit'.wizard = "cancelled" => edit'.err = ""]_vars

\* add-target has appended a target named t4 to <<t1, t2>>
C23_Witness ==
  /\ edit.cmd = "add-target" /\ edit.wizard = "completed" /\ edit.n = 1
  /\ edit.err = "" /\ edit.saves = 1
  /\ Len(cfg.targets) = 3
  /\ SubSeq(cfg.targets, 1, 2) = SubSeq(StoredTargets, 1, 2)
  /\ cfg.targets[3].name = "t4"

\* the names of the targets of a list are pairwise different
UniqueNames(list) == \A i, j \in DOMAIN list : list[i].name = list[j].name => i = j

\* C24: target names are unique: after any sequence of add-target and rm-target
\* commands on a configuration whose names are distinct, no two stored targets
\* have the same name.
C24_NamesStayUnique == UniqueNames(cfg.targets)

\* what holds instead: only add-target can store a name twice, and it does so
\* exactly when the wizard completes with a name that is already stored
C24_DuplicateOnlyByAddingStoredName ==
  [][UniqueNames(cfg.targets) /\ ~UniqueNames(cfg'.targets) =>
       /\ AddStep /\ edit'.wizard = "completed"
       /\ cfg'.targets[Len(cfg'.targets)].name \in NamesOf(cfg.targets)]_vars

\* add-target with the name t1 has made <<t1>> a list of two targets named t1
C24_Witness ==
  /\ edit.cmd = "add-target" /\ edit.err = "" /\ edit.n = 1
  /\ Len(cfg.targets) = 2
  /\ cfg.targets[1] = StoredTargets[1]
  /\ cfg.targets[2].name = "t1"

\* the invariant of a target: a container runner has a container descriptor, and
\* a descriptor in build mode has a build sub-descriptor with a Dockerfile path
WellFormed(t) ==
  /\ t.runner = "docker" => t.docker.present
  /\ t.docker.present /\ t.docker.mode = "build" =>
       t.docker.build.present /\ t.docker.build.dockerfile # ""

\* C25: every target the wizard produces and add-target stores satisfies the
\* invariant of a target.
C25_WizardTargetsWellFormed ==
  [][AddStep /\ edit'.wizard = "completed" /\ edit'.err = "" =>
       WellFormed(cfg'.targets[Len(cfg'.targets)])]_vars

\* the half that holds: a stored target with the container runner has a
\* container descriptor, and one with the native runner has none
C25_DockerRunnerHasDescriptor ==
  [][AddStep /\ edit'.wizard = "completed" /\ edit'.err = "" =>
       LET t == cfg'.targets[Len(cfg'.targets)]
       IN  (t.runner = "docker") <=> t.docker.present]_vars

\* add-target has stored a target in build mode without a build sub-descriptor
C25_Witness ==
  /\ edit.cmd = "add-target" /\ edit.wizard = "completed" /\ edit.err = ""
  /\ cfg.targets # <<>>
  /\ LET t == cfg.targets[Len(cfg.targets)]
     IN  /\ t.runner = "docker" /\ t.docker.present /\ t.docker.mode = "build"
         /\ ~t.docker.build.present
         /\ t.docker.image = "cpx-" \o t.name

\* ------------------------------------------------------ early failures
\* a step in which runCIBuild is called and does not find the guard set
PipelineCall == pc = "idle" /\ calls' = calls + 1 /\ ~ciCommandExecuted

\* the configuration does not load, or the call names a target it does not hold
NothingToSelect ==
  \/ ~cfg.loadable
  \/ call'.targetName # "" /\ call'.targetName \notin NamesOf(cfg.targets)

\* the commands in a piece of log: everything but printed lines
CommandsIn(events) == SelectSeq(events, LAMBDA e : e.op \in EngineOps \cup BuildOps)

\* a step of ResolveImage for a target of the container runner without a
\* container descriptor
ResolveWithoutDescriptor ==
  /\ pc = "resolve"
  /\ targets[idx].runner = "docker" /\ ~targets[idx].docker.present

\* C26: when the configuration cannot be loaded or the named target is not in
\* it, runCIBuild returns an error without creating any directory and without
\* running any command; a target of the container runner without a container
\* descriptor makes the call return an error before any container-engine
\* command is run for it.
C26_FailsBeforeSideEffects ==
  /\ [][PipelineCall /\ NothingToSelect =>
          /\ ret'.done /\ ret'.err # "" /\ pc' = "idle"
          /\ (~cfg.loadable) => ret'.err = "failed to load cpx-ci.yaml"
          /\ cfg.loadable => ret'.err = "target not found in cpx-ci.yaml"
          /\ log' = log
          /\ UNCHANGED <<dirs, configured, artifacts, images, targets, attempts>>]_vars
  /\ [][ResolveWithoutDescriptor =>
          /\ ret'.done /\ ret'.err = "failed to resolve Docker image"
          /\ ret'.target = targets[idx].name /\ pc' = "idle"
          /\ \A k \in DOMAIN log' :
               log'[k].target = targets[idx].name => log'[k].op \notin EngineOps \cup BuildOps
          /\ UNCHANGED <<dirs, configured, artifacts, images>>]_vars

\* a process has failed on a container target without a descriptor, having run
\* no command, and the next one has named a target the configuration does not
\* hold and has left the disk as it was
C26_Witness ==
  /\ run = 2 /\ cfg.loadable /\ call.targetName = "t9" /\ ret.done
  /\ ret.err = "target not found in cpx-ci.yaml" /\ log = <<>>
  /\ dirs = MkdirAll(<<DefaultOutput>>) \cup MkdirAll(<<CacheBase>>)
  /\ Len(resolutions) = 1
  /\ resolutions[1].target.runner = "docker" /\ ~resolutions[1].target.docker.present
  /\ resolutions[1].err = "docker configuration is required for docker runner"
  /\ resolutions[1].events = <<>>

\* ----------------------------------------------------------------- retries
\* how often the process has run one of the commands ops for the target named t
TimesRun(ops, t) ==
  Cardinality({k \in DOMAIN log : log[k].op \in ops /\ log[k].target = t})
ImagePulls == {"docker pull"}
ImageBuilds == {"docker buildx build", "docker build"}

\* no target is attempted twice, and a failed attempt is the last one of the run
NoSecondAttempt ==
  /\ \A i, j \in DOMAIN attempts : attempts[i].target = attempts[j].target => i = j
  /\ \A i \in DOMAIN attempts : attempts[i].err # "" => i = Len(attempts) /\ pc = "idle"

\* C27, as stated: within one run, for each target the image pull, the image
\* build, the configure step and the build step are each invoked at most once,
\* and a step that failed is not attempted again.
C27_EveryStepAtMostOnce ==
  /\ NoSecondAttempt
  /\ \A i \in DOMAIN targets :
       \A ops \in {ImagePulls, ImageBuilds, ConfigureOps, CompileOps \cup {"bazel build"}} :
         TimesRun(ops, targets[i].name) <= 1

\* the legacy builder has run for the target named t only after the buildx
\* build of the same image failed
LegacyOnlyAfterFailedBuildx(t) ==
  \A k \in DOMAIN log :
    log[k].op = "docker build" /\ log[k].target = t =>
      /\ k > 1
      /\ log[k - 1] = Exited(Ev("docker buildx build", t, log[k].ref))

\* C27, amended: every command is invoked at most once for each target; the
\* image build is attempted a second time only as the legacy `docker build`,
\* directly after `docker buildx build` failed, and never a third time.
C27_AtMostOnceButBuilderFallback ==
  /\ NoSecondAttempt
  /\ \A i \in DOMAIN targets :
       LET t == targets[i].name
       IN  /\ \A ops \in {ImagePulls, {"docker buildx build"}, {"docker build"},
                          ConfigureOps, CompileOps \cup {"bazel build"}} :
                TimesRun(ops, t) <= 1
           /\ LegacyOnlyAfterFailedBuildx(t)

\* the run has built the image of a target with the legacy builder after buildx
\* failed, then configured and compiled the target once and gone on to the next
C27_Witness ==
  /\ Len(targets) > 1 /\ Len(attempts) > 0
  /\ attempts[1].err = ""
  /\ TimesRun({"docker buildx build"}, targets[1].name) = 1
  /\ TimesRun({"docker build"}, targets[1].name) = 1
  /\ TimesRun(ConfigureOps, targets[1].name) = 1
  /\ TimesRun(CompileOps, targets[1].name) = 1

\* ------------------------------------------------------------ output layout
\* the directories into which the step copied artifacts
StepArtifacts == artifacts' \ artifacts

\* the process ends the call with the summary that names the output root
SummaryNames(root) ==
  StepEvents # <<>> /\ StepEvents[Len(StepEvents)] = Printed("Artifacts are in: " \o root, "", 0)

\* C28: for every output root, relative or absolute or the default, and every
\* runner and strategy, the artifacts of a target are written into
\* <output-root>/<target>/, the directory the build creates before it runs
\* anything, below the root the success summary reports.
C28_ArtifactsInTargetOutputDir ==
  [][BuildStep =>
       LET root == IF cfg.output = "" THEN ".bin/ci" ELSE cfg.output
       IN  /\ StepArtifacts \subseteq {<<root, StepTarget.name>>}
           /\ OutputDirMade => <<root, StepTarget.name>> \in dirs'
           /\ StepError = "" /\ ~call.executeAfterBuild => SummaryNames(root)]_vars

\* what the code does: the native build copies into <output-root>/<target>/; a
\* container build copies into <output-root>/<target>/ below the project root,
\* which is another directory when the output root is absolute
C28_ContainerArtifactsBelowProjectRoot ==
  [][BuildStep =>
       LET root == IF cfg.output = "" THEN ".bin/ci" ELSE cfg.output
           absolute == root = "/out"
       IN  /\ StepTarget.runner = "native" \/ ~absolute =>
                StepArtifacts \subseteq {<<root, StepTarget.name>>}
           /\ StepTarget.runner # "native" /\ absolute =>
                StepArtifacts \subseteq {<<"out", StepTarget.name>>}
           /\ OutputDirMade => <<root, StepTarget.name>> \in dirs'
           /\ StepError = "" /\ ~call.executeAfterBuild => SummaryNames(root)]_vars

\* with the output root /out, a container build has created /out/t1 and has
\* copied the artifacts into out/t1 below the project root
C28_Witness ==
  /\ cfg.loadable /\ cfg.output = "/out"
  /\ <<"/out", "t1">> \in dirs
  /\ <<"out", "t1">> \in artifacts
  /\ <<"/out", "t1">> \notin artifacts
  /\ ret.done /\ ret.err = ""

\* --------------------------------------------------------- cache directories
\* the directories below .cache/ci/<n> that the step creates
NewCacheDirs(n) ==
  {d \in dirs' \ dirs : Len(d) >= 2 /\ d[1] = ".cache/ci" /\ d[2] = n}

\* the step is the build of the target named n
BuildsTarget(n) == BuildStep /\ StepTarget.name = n

\* the call of this step selects a target named n that has the container runner
\* and a container descriptor
SelectsContainerTarget(n) ==
  /\ PipelineCall
  /\ \E i \in DOMAIN cfg.targets :
       /\ cfg.targets[i].name = n
       /\ cfg.targets[i].runner = "docker" /\ cfg.targets[i].docker.present
       /\ \/ call'.targetName = n
          \/ call'.targetName = "" /\ cfg.targets[i].active

\* C29, as stated: cache directories are created lazily: a run creates
\* directories below .cache/ci/<target> only when it attempts the build of that
\* target.
C29_CacheDirsOnlyWhenBuilt ==
  [][\A i \in DOMAIN cfg.targets :
       LET n == cfg.targets[i].name
       IN  NewCacheDirs(n) # {} => BuildsTarget(n)]_vars

\* C29, amended: a run creates directories below .cache/ci/<target> either in
\* the build of that target, or before the loop, and then only
\* .cache/ci/<target>/.vcpkg_cache and only for a selected target with the
\* container runner and a container descriptor; it creates none for a target
\* it did not select.
C29_CacheDirsWhenBuiltOrPreCreated ==
  [][\A i \in DOMAIN cfg.targets :
       LET n == cfg.targets[i].name
       IN  NewCacheDirs(n) # {} =>
             \/ BuildsTarget(n)
             \/ /\ SelectsContainerTarget(n)
                /\ NewCacheDirs(n) \subseteq {<<".cache/ci", n>>, <<".cache/ci", n, ".vcpkg_cache">>}]_vars

\* the run has failed at its first target and has never attempted the second,
\* whose .vcpkg_cache directory exists
C29_Witness ==
  /\ Len(targets) = 2 /\ Len(attempts) = 1 /\ attempts[1].err # ""
  /\ ret.done /\ ret.err # "" /\ pc = "idle"
  /\ <<".cache/ci", targets[2].name, ".vcpkg_cache">> \in dirs
  /\ \A k \in DOMAIN log : log[k].target # targets[2].name

\* ------------------------------------------------------------ build settings
\* the members of args that are among the options a configuration can name
AmongOptions(args, pool) ==
  SelectSeq(args, LAMBDA a : \E l \in pool : \E k \in DOMAIN l : l[k] = a)

\* the build type C30 expects, and the list it expects for a pair of lists
ExpectedType ==
  IF settings.target.buildType # "" THEN settings.target.buildType
  ELSE IF settings.build.type # "" THEN settings.build.type
  ELSE "Release"
ExpectedList(own, global) == IF own # <<>> THEN own ELSE global

\* C30: per-target settings override the global defaults field by field without
\* merging: the build type is the target's when set, else the global one, else
\* Release; the CMake options and the build options are the target's list when
\* it is not empty and the global list otherwise, never a combination. (The
\* Bazel and Meson strategies take the build type the same way and reduce it to
\* debug or release.)
C30_TargetSettingsOverrideGlobal ==
  settings.used =>
    LET t == settings.target
        b == settings.build
        a == settings.args
    IN  /\ settings.strategy \in {"native", "cmake"} =>
             /\ AmongOptions(a.configure,
                              {<<"-DCMAKE_BUILD_TYPE=" \o ty>> :
                                 ty \in TargetBuildTypes \cup GlobalBuildTypes \cup {"Release"}})
                  = <<"-DCMAKE_BUILD_TYPE=" \o ExpectedType>>
             /\ SubSeq(a.build, 3, 4) = <<"--config", ExpectedType>>
             /\ AmongOptions(a.configure, TargetCMakeOptions \cup GlobalCMakeArgs)
                  = ExpectedList(t.cmakeOptions, b.cmakeArgs)
             /\ AmongOptions(a.build, TargetBuildOptions \cup GlobalBuildArgs)
                  = ExpectedList(t.buildOptions, b.buildArgs)
        /\ settings.strategy = "bazel" =>
             a.build = <<"--config=" \o (IF ExpectedType \in {"Debug", "debug"}
                                         THEN "debug" ELSE "release")>>
        /\ settings.strategy = "meson" =>
             a.configure[3] = "--buildtype=" \o (IF ExpectedType \in {"Debug", "debug"}
                                                 THEN "debug" ELSE "release")

\* a container CMake build of a target with two CMake options of its own and no
\* build type, where the global defaults name Debug and another CMake option
C30_Witness ==
  /\ settings.used /\ settings.strategy = "cmake"
  /\ settings.target.buildType = "" /\ settings.build.type = "Debug"
  /\ settings.target.cmakeOptions = <<"-DT=1", "-DT=2">>
  /\ settings.build.cmakeArgs = <<"-DG=1">>
  /\ settings.target.buildOptions = <<>> /\ settings.build.buildArgs = <<"-k">>
  /\ settings.build.jobs = 4
  /\ settings.args.build = <<"--build", "/tmp/build", "--config", "Debug", "--parallel", "4", "-k">>
  /\ Len(settings.args.configure) = 11

\* ---------------------------------------------------------- native artifacts
\* the native build of the harness got past its build step: it printed
\* "Copying artifacts..."
BuildStepSucceeded ==
  /\ native.used
  /\ \E k \in DOMAIN native.out.events : native.out.events[k].op = "copy artifacts"

\* the names the build reports as copied
ReportedCopies ==
  {native.out.events[k].op : k \in {j \in DOMAIN native.out.events :
                                       HasPrefix(native.out.events[j].op, "Copied: ")}}

\* the entries of the listing that are executables or libraries by name and mode
Candidates ==
  {native.listing.entries[k] : k \in {j \in DOMAIN native.listing.entries :
     LET e == native.listing.entries[j]
     IN  /\ ~e.isDir
         /\ e.name \in {"app", "libx.a"}}}

\* C31: once the build step of a native target has succeeded, runNativeBuild
\* returns success, whatever number of artifacts is found in the build
\* directory and also when copying an artifact fails.
C31_SuccessOnceBuilt ==
  BuildStepSucceeded => native.out.err = ""

\* C31 as amended: once the build step has succeeded, runNativeBuild fails only
\* when the build directory cannot be read; when it can, the build succeeds with
\* any number of artifacts found, copies exactly those whose copy does not
\* fail, and reports artifacts as copied only if it copied one.
C31_SuccessOnceBuiltAndListed ==
  BuildStepSucceeded =>
    /\ native.out.err = (IF native.listing.readable THEN "" ELSE "failed to read build directory")
    /\ ReportedCopies = {"Copied: " \o e.name : e \in {c \in Candidates : c.fails = ""}}
    /\ native.out.copied <=> ReportedCopies # {}

\* C31 witness: the build succeeded although of the two artifacts in the build
\* directory one could not be written and nothing else was there to copy
C31_Witness ==
  /\ BuildStepSucceeded
  /\ native.out.err = ""
  /\ Cardinality(Candidates) = 2
  /\ \E c \in Candidates : c.fails = "write"
  /\ Cardinality(ReportedCopies) = 1

\* ------------------------------------------------------ concurrent processes
\* process p takes a step
StepOf(p) == race'.proc[p] # race.proc[p]

\* C32: two orchestrator processes of one project are not mutually excluded.
\* The guard of runCIBuild is per process: the first call of a process enters
\* the pipeline whatever the other processes did.  The incremental-build test
\* looks at build.ninja only: a process configures exactly when the file is
\* absent at its test, also while another process is configuring or building
\* in the same build directory.  No step waits for another process.
C32_NotMutuallyExcluded ==
  /\ [][\A p \in Procs :
         StepOf(p) =>
           /\ \A q \in Procs \ {p} : race'.proc[q] = race.proc[q]
           /\ race.proc[p].pc = "idle" /\ race.proc[p].calls = 0 => race'.proc[p].pc = "stat"
           /\ race.proc[p].pc = "stat" =>
                race'.proc[p].pc = (IF race.ninja THEN "build" ELSE "configure")]_vars
  /\ [](\A p \in Procs :
          /\ race.proc[p].pc = "idle" /\ race.proc[p].calls < MaxCalls => ENABLED RaceCall(p)
          /\ race.proc[p].pc = "stat" => ENABLED RaceStat(p)
          /\ race.proc[p].pc = "configure" => ENABLED RaceConfigured(p)
          /\ race.proc[p].pc = "build" => ENABLED RaceBuilt(p)
          /\ race.proc[p].pc = "copy" => ENABLED RaceCopied(p))

\* C32 witness: every process found build.ninja absent before any had finished
\* configuring, and the build commands of all are running in the same build
\* directory, each after its own configure command
C32_Witness ==
  /\ race.ninja
  /\ \A p \in Procs : race.proc[p].pc = "build" /\ race.proc[p].saw = "absent"

\* ------------------------------------------------- platform and image label
\* resolution j is of the target of resolution i with the same name, Dockerfile
\* content and build args, but another platform or another image label
Retargeted(i, j) ==
  LET a == resolutions[i]
      b == resolutions[j]
  IN  /\ i < j
      /\ BuildModeHashed(a) /\ BuildModeHashed(b)
      /\ a.target.name = b.target.name
      /\ a.file = b.file
      /\ a.target.docker.build = b.target.docker.build
      /\ \/ a.target.docker.platform # b.target.docker.platform
         \/ a.target.docker.image # b.target.docker.image

ReturnsNil ==
  /\ calls' # calls \/ pc \in {"resolve", "build"}
  /\ pc' = "idle"
  /\ ret'.done
  /\ ret'.err = ""

\* the attempts made during the call that returns at this step
MadeInCall ==
  IF calls' # calls
  THEN SubSeq(attempts', Len(attempts) + 1, Len(attempts'))
  ELSE attempts'

\* the call that returns has attempted every target of the selection, each with
\* success, and there was one
SelectedBuilt ==
  /\ MadeInCall # <<>>
  /\ Len(MadeInCall) = Len(targets')
  /\ \A k \in DOMAIN MadeInCall :
       MadeInCall[k].target = targets'[k].name /\ MadeInCall[k].err = ""

\* C34: whenever a call of runCIBuild returns nil, every target selected by the
\* call was built successfully during the call; no call returns nil without
\* having attempted its targets, also after a failed earlier call of the process.
C34_SuccessMeansSelectedBuilt ==
  [][ReturnsNil => SelectedBuilt]_vars

\* What holds instead: the call of a process that runs the loop returns nil
\* only when every selected target was built; every later call returns nil
\* having attempted nothing, whatever the first call returned.
C34_SuccessOfFirstCallMeansBuilt ==
  [][ReturnsNil =>
       IF calls' # calls
       THEN calls >= 1 /\ MadeInCall = <<>>
       ELSE calls = 1 /\ SelectedBuilt]_vars

\* C34 witness: the first call of the process failed at a target, and the second
\* call of the process returned nil
C34_Witness ==
  /\ calls = 2
  /\ pc = "idle"
  /\ ret.done
  /\ ret.err = ""
  /\ attempts # <<>>
  /\ attempts[Len(attempts)].err # ""

\* ------------------------------------------------- persistent build directory
\* a run of the target has just succeeded
RunSucceeded == builddir.runs > 0 /\ ~builddir.edited /\ builddir.last.err = ""

\* the configure and build arguments the settings of the moment specify
ArgumentsNow == ArgumentsOf(builddir.strategy, builddir.target, builddir.build)

\* C35: after every successful run of a CMake or Meson target, the build
\* directory of the target is configured with the build type and configure
\* options that the descriptor and the global defaults specify at the time of
\* the run, also when they were changed since the directory was configured.
C35_ConfiguredAsSpecifiedNow ==
  RunSucceeded => builddir.configuredWith = ArgumentsNow.configure

\* What holds instead: the directory is configured as the settings specify
\* after every successful run that ran the configure step, which is every run
\* that found no build.ninja; a later run leaves the configuration as it is
\* and only its build step gets the arguments of the moment.
C35_ConfiguredAsWhenConfigured ==
  /\ [](RunSucceeded =>
          /\ builddir.ninja
          /\ builddir.last.configureRan => builddir.configuredWith = ArgumentsNow.configure
          /\ builddir.last.buildArgs = ArgumentsNow.build)
  /\ [][builddir.ninja => /\ builddir'.configuredWith = builddir.configuredWith
                          /\ ~builddir'.last.configureRan \/ builddir'.last = builddir.last]_vars

\* C35 witness: a CMake target was configured and built as Debug, its build type
\* was changed to MinSizeRel, and the next run succeeded with the directory still
\* configured as Debug
C35_Witness ==
  /\ builddir.strategy = "cmake"
  /\ builddir.runs = 2
  /\ RunSucceeded
  /\ builddir.target.buildType = "MinSizeRel"
  /\ \E k \in DOMAIN builddir.configuredWith :
       builddir.configuredWith[k] = "-DCMAKE_BUILD_TYPE=Debug"
  /\ \E k \in DOMAIN ArgumentsNow.configure :
       ArgumentsNow.configure[k] = "-DCMAKE_BUILD_TYPE=MinSizeRel"

\* ------------------------------------------------------ bytes fed to the hash
\* the bytes evaluation i wrote to the hash
FedBytes(i) == HashInput(hist[i].content, ArgsOf(hist[i]), hist[i].order)

\* a is a proper prefix of b
ProperPrefix(a, b) == Len(a) < Len(b) /\ SubSeq(b, 1, Len(a)) = a

\* C36: the bytes fed to SHA-256 (the Dockerfile content, then key=value lines
\* in sorted key order) are injective on the build configuration: two
\* evaluations on different (content, mapping) pairs never write the same bytes
\* and so never return the same hash.
C36_HashInputInjective ==
  \A i, j \in DOMAIN hist :
    ~SameBuildConfig(i, j) =>
      /\ FedBytes(i) # FedBytes(j)
      /\ hist[i].hash # hist[j].hash

\* What holds instead: two different build configurations are fed as the same
\* bytes only when the content of one continues into the key=value lines of
\* the other.
C36_SameBytesOnlyAcrossBoundary ==
  \A i, j \in DOMAIN hist :
    ~SameBuildConfig(i, j) /\ FedBytes(i) = FedBytes(j) =>
      \/ ProperPrefix(hist[i].content, hist[j].content)
      \/ ProperPrefix(hist[j].content, hist[i].content)

\* C36 witness: a Dockerfile with the content "a=\n" and no build args, and an
\* empty Dockerfile with the build arg a="", were hashed to the same value
C36_Witness ==
  /\ Len(hist) = 2
  /\ hist[1].content = <<97, EQ, NL>>
  /\ ArgsOf(hist[1]) = NoArgs
  /\ hist[2].content = <<>>
  /\ DOMAIN ArgsOf(hist[2]) = {KeyA}
  /\ FedBytes(1) = FedBytes(2)
  /\ hist[1].hash = hist[2].hash

\* ---------------------------------------------------------------- claim C37
\* the step on which rm-target list returns from the UI
ListRemoveStep == picker.used /\ picker.at = "ui" /\ picker'.at = "returned"

\* the indices the user confirmed with enter: those toggled, or the cursor's
Confirmed(m) == IF m.selected = {} THEN {m.cursor} ELSE m.selected

\* the document without the targets at the indices (counted from 0)
WithoutShown(file, indices) ==
  [file EXCEPT !.targets = Without(@, {file.targets[i + 1].name : i \in indices})]

\* what the claim says of one return of rm-target list
QuitKeepsEnterRemoves ==
  /\ picker.first \in QuitKeys => picker'.file = picker.file /\ picker'.saves = 0
  /\ picker.first = "enter" /\ picker'.err = ""
       => /\ picker'.file = WithoutShown(picker.file, Confirmed(picker.before))
          /\ picker'.saves = 1

\* C37: rm-target list, for every sequence of key presses: quitting with
\* ctrl+c, q or esc removes no target and leaves cpx-ci.yaml unwritten whatever
\* was toggled before; confirming with enter removes exactly the toggled
\* targets, or the single target under the cursor when none is toggled.
C37_QuitKeepsEnterRemoves == [][ListRemoveStep => QuitKeepsEnterRemoves]_vars

\* C37, as far as it holds: the same, when no key is handled between the key
\* that quits or confirms and the end of the program.
C37_HoldsWithoutLaterKey ==
  [][ListRemoveStep /\ ~picker.late => QuitKeepsEnterRemoves]_vars

\* q was pressed first, a key was handled after it, and rm-target list saved
\* cpx-ci.yaml with a target removed
C37_Witness ==
  /\ picker.used /\ picker.at = "returned"
  /\ picker.first = "q" /\ picker.late
  /\ picker.saves = 1 /\ picker.err = ""
  /\ Len(picker.file.targets) < Len(picker.m.targets)

\* ---------------------------------------------------------------- claim C38
\* the indices of the list of a model
IndicesOf(m) == 0..(Len(m.targets) - 1)

\* the selected set holds indices of the list only, and GetSelected does not panic
SelectedValid ==
  /\ picker.m.selected \subseteq IndicesOf(picker.m)
  /\ ~GetSelected(picker.m).panic
  /\ ~picker.panic

\* the cursor is a row of the list (row 0 of an empty list) and of the viewport
CursorInView ==
  LET m == picker.m
  IN  /\ m.cursor \in IndicesOf(m) \cup {0}
      /\ m.viewport <= m.cursor /\ m.cursor < m.viewport + m.viewSize

\* C38: in the target-selection UI, after any sequence of key presses and for
\* any target list including the empty one, every index in the selected set is
\* a valid index into the list, so GetSelected never indexes out of range; the
\* cursor stays within the list and within the visible viewport window.
C38_SelectedAndCursorValid == picker.used => SelectedValid /\ CursorInView

\* C38, as far as it holds: the same for every list that is not empty; over the
\* empty list the cursor and the viewport stay at 0.
C38_ValidOverNonEmptyList ==
  picker.used =>
    /\ CursorInView
    /\ Len(picker.m.targets) > 0 => SelectedValid
    /\ Len(picker.m.targets) = 0 => picker.m.cursor = 0 /\ picker.m.viewport = 0

\* over the empty list enter put index 0 in the selected set and
\* RunTargetSelection ended with an index out of range
C38_Witness ==
  /\ picker.used /\ picker.at = "returned"
  /\ picker.m.targets = <<>>
  /\ picker.m.selected = {0}
  /\ picker.panic

\* ---------------------------------------------------------------- claim C39
\* the options of the steps that show a list
OptionsAt(step) ==
  CASE step = "Runner" -> runnerOptions
    [] step = "DockerMode" -> dockerModeOptions
    [] step = "Platform" -> platformOptions
    [] step = "BuildType" -> buildTypeOptions
ListSteps == {"Runner", "DockerMode", "Platform", "BuildType"}

\* the order of the steps: the step that follows a step of a model
FollowingStep(m) ==
  CASE m.step = "Name" -> "Runner"
    [] m.step = "Runner" ->
         IF runnerOptions[m.cursor + 1] = "docker" THEN "DockerMode" ELSE "BuildType"
    [] m.step = "DockerMode" -> "DockerImage"
    [] m.step = "DockerImage" -> "Platform"
    [] m.step = "Platform" -> "BuildType"
    [] m.step = "BuildType" -> "Done"
    [] OTHER -> m.step

\* at a list step the cursor is an index (from 0) of the options of the step
CursorOnOption ==
  form.used /\ form.m.step \in ListSteps
    => form.m.cursor \in 0..(Len(OptionsAt(form.m.step)) - 1)

\* a key press changes the step only when it is enter, only to the following
\* step, and at Name only when the trimmed text is a non-empty valid name
AdvancesOnEnter ==
  form.used /\ form'.m.step # form.m.step
    => /\ form'.key = "enter"
       /\ form'.m.step = FollowingStep(form.m)
       /\ form.m.step = "Name" => NameAccepted(TrimSpace(form.m.text))

\* ctrl+c and esc cancel, and a cancelled run returns no target
CancelReturnsNone ==
  /\ form.used /\ form'.key \in CancelKeys /\ form'.keys # form.keys
       => form'.m.cancelled /\ form'.quit
  /\ form.used /\ form.cancelKey => form.m.cancelled
  /\ form.used /\ form.at = "ui" /\ form'.at = "returned" /\ form.cancelKey
       => form'.result.kind # "target"

\* C39: the add-target wizard advances only on enter and only forward: Name
\* (stays until the name is non-empty and valid), Runner, then for docker
\* DockerMode, DockerImage, Platform, BuildType and for native directly
\* BuildType; Done is reached only from BuildType; at every list step the
\* cursor is a valid index into that step's options; ctrl+c or esc at any step
\* cancels so that no target is returned.
C39_WizardStepsForward ==
  /\ CursorOnOption
  /\ [][AdvancesOnEnter /\ CancelReturnsNone /\ CursorOnOption']_vars

\* the wizard went through the docker steps to Done and returned a target
C39_Witness ==
  /\ form.used /\ form.at = "returned"
  /\ form.m.step = "Done" /\ form.m.runner = "docker"
  /\ form.m.name = "k" /\ form.m.image = "ubuntu:22.04"
  /\ form.result.kind = "target" /\ form.result.config.Name = "k"
====
